---- MODULE Spec2Model ----
(***************************************************************************)
(* tslox: a tree-walking interpreter for Lox.                              *)
(*                                                                         *)
(* The resolver (src/src/resolver.ts) and the evaluator                    *)
(* (class Interpreter in src/src/lox.js, with src/src/types.ts and         *)
(* src/src/environment.ts) are recursive visitors; they are modelled as    *)
(* RECURSIVE operators that thread the visitor's state explicitly, one     *)
(* operator per visit method.  The driver (src/unnamed/part_000) is the    *)
(* state machine: it picks a program, runs the static pass, and executes   *)
(* the program one top-level statement per step.  The scanner             *)
(* (src/src/scanner.ts) is modelled character by character; it runs on the *)
(* lead of each source text, and alone, one token per step, under          *)
(* ScanSpec.                                                               *)
(***************************************************************************)
EXTENDS Integers, Sequences, FiniteSets, TLC

VARIABLES mode, pc, src, statements, idx, hadError, hadRunTimeError, exitCode, interp,
          resolver, lines, scanner, parser

vars ==
  <<mode, pc, src, statements, idx, hadError, hadRunTimeError, exitCode, interp, resolver, lines,
    scanner, parser>>

(***************************************************************************)
(* Bounds of the model.                                                    *)
(***************************************************************************)
\* lines submitted to one prompt session
MaxLines == 1
\* largest literal number placed in a program's holes
MaxNum == 1

(***************************************************************************)
(* Runtime values (LoxObject, src/src/types.ts:13).  One record shape for  *)
(* every value: t is the kind, n/d a number as the fraction n/d (or the    *)
(* heap address of a function, class or instance in n), s a string.        *)
(* "undefined" is the host language's undefined, which the evaluator can   *)
(* produce (a missing map entry, the value field of a non-return signal).  *)
(***************************************************************************)
Val(t, n, d, s) == [t |-> t, n |-> n, d |-> d, s |-> s]
Nil == Val("nil", 0, 1, "")
Undefined == Val("undefined", 0, 1, "")
Bool(b) == Val("bool", IF b THEN 1 ELSE 0, 1, "")
Num(k) == Val("num", k, 1, "")
NaN == Val("num", 0, 1, "NaN")
Str(s) == Val("str", 0, 1, s)
FnRef(oid) == Val("fn", oid, 1, "")
ClassRef(oid) == Val("class", oid, 1, "")
InstanceRef(oid) == Val("instance", oid, 1, "")
ClockFn == Val("native", 0, 1, "clock")
\* a property found on the host object's prototype instead of in the map
HostProp(name) == Val("hostprop", 0, 1, name)

Abs(k) == IF k < 0 THEN -k ELSE k

RECURSIVE Gcd(_, _)
Gcd(a, b) == IF b = 0 THEN a ELSE Gcd(b, a % b)

\* the number p/q (q # 0) in lowest terms with a positive denominator
Frac(p, q) ==
  LET g == Gcd(Abs(p), Abs(q))
      sgn == IF q < 0 THEN -1 ELSE 1
  IN Val("num", sgn * (p \div g), Abs(q) \div g, "")

IsNumber(v) == v.t = "num"
IsNaN(v) == v.t = "num" /\ v.s = "NaN"
IsString(v) == v.t = "str"

(***************************************************************************)
(* Host-language facts the code relies on.  `name in obj` also finds the   *)
(* properties obj inherits: for the plain object that holds a frame's      *)
(* values these are Object.prototype's, for a Map they are Map.prototype's *)
(* and Object.prototype's.                                                 *)
(***************************************************************************)
ObjectPrototypeProps == {"constructor", "toString", "valueOf", "hasOwnProperty"}
MapPrototypeProps == {"get", "set", "has", "delete", "clear", "size", "keys", "values",
                      "entries", "forEach"} \cup ObjectPrototypeProps

(***************************************************************************)
(* AST (src/unnamed/part_007; the node kinds Ternary, This, Super, Lambda  *)
(* and the superclass of a class statement follow spec.md section 3).      *)
(* A token is modelled by its lexeme or, for operators, its token type.    *)
(* id is the node's identity, the key of the hop-count map.                *)
(***************************************************************************)
NoExpr == [type |-> "null"]
LiteralExpr(value) == [type |-> "Literal", value |-> value]
GroupingExpr(expression) == [type |-> "Grouping", expression |-> expression]
UnaryExpr(operator, right) == [type |-> "Unary", operator |-> operator, right |-> right]
BinaryExpr(left, operator, right) ==
  [type |-> "Binary", left |-> left, operator |-> operator, right |-> right]
LogicalExpr(left, operator, right) ==
  [type |-> "Logical", left |-> left, operator |-> operator, right |-> right]
TernaryExpr(condition, thenArm, elseArm) ==
  [type |-> "Ternary", condition |-> condition, thenArm |-> thenArm, elseArm |-> elseArm]
VariableExpr(id, name) == [type |-> "Variable", id |-> id, name |-> name]
AssignExpr(id, name, value) == [type |-> "Assign", id |-> id, name |-> name, value |-> value]
CallExpr(callee, args) == [type |-> "Call", callee |-> callee, args |-> args]
GetExpr(object, name) == [type |-> "Get", object |-> object, name |-> name]
SetExpr(object, name, value) ==
  [type |-> "Set", object |-> object, name |-> name, value |-> value]
ThisExpr(id) == [type |-> "This", id |-> id, name |-> "this"]
SuperExpr(id, method) == [type |-> "Super", id |-> id, name |-> "super", method |-> method]
LambdaExpr(params, body) == [type |-> "Lambda", params |-> params, body |-> body]

ExpressionStmt(expression) == [type |-> "Expression", expression |-> expression]
PrintStmt(expression) == [type |-> "Print", expression |-> expression]
VarStmt(name, initializer) == [type |-> "Var", name |-> name, initializer |-> initializer]
BlockStmt(stmts) == [type |-> "Block", statements |-> stmts]
IfStmt(condition, thenBranch, elseBranch) ==
  [type |-> "If", condition |-> condition, thenBranch |-> thenBranch,
   elseBranch |-> elseBranch]
WhileStmt(condition, body) == [type |-> "While", condition |-> condition, body |-> body]
FunctionStmt(name, params, body) ==
  [type |-> "Function", name |-> name, params |-> params, body |-> body]
ReturnStmt(value) == [type |-> "Return", value |-> value]
ClassStmt(name, superclass, methods) ==
  [type |-> "Class", name |-> name, superclass |-> superclass, methods |-> methods]

\* Expr.accept / Stmt.accept: the visitor method a node dispatches to
accept(node) ==
  CASE node.type = "Set" -> "visitGetExpr"
    [] node.type \in {"Literal", "Grouping", "Unary", "Binary", "Logical", "Ternary",
                      "Variable", "Assign", "Call", "Get", "This", "Super", "Lambda"}
         -> "visit" \o node.type \o "Expr"
    [] OTHER -> "visit" \o node.type \o "Stmt"

(***************************************************************************)
(* Results of a visit: the state after it, the value, and the signal that  *)
(* unwinds the visitor ("none", "RuntimeError", "Return" for               *)
(* LoxFunctionReturn, "TypeError" for an exception of the host language).  *)
(* val is the signal's value field: the returned value for "Return",       *)
(* undefined for the others.                                               *)
(***************************************************************************)
R(st, val, sig, msg) == [st |-> st, val |-> val, sig |-> sig, msg |-> msg]
Ok(st, val) == R(st, val, "none", "")
TypeError(st, msg) == R(st, Undefined, "TypeError", msg)

\* y, after x has been evaluated: an operator's arguments are evaluated when first
\* used, and a visitor that has its state evaluated on entry keeps the depth of the
\* evaluation proportional to the depth of the syntax tree
Strict(x, y) == IF DOMAIN x = {} THEN y ELSE y

\* F applied to x: names a value that is used more than once
With(x, F(_)) == F(x)

\* the record of what the evaluator did, in order (history, not program state)
Emit(st, e) == [st EXCEPT !.trace = Append(@, e)]

RuntimeError(st, msg) ==
  R(Emit(st, [ev |-> "throw", depth |-> st.depth, msg |-> msg]), Undefined, "RuntimeError", msg)

(***************************************************************************)
(* Environment (src/src/environment.ts).  A frame is envs[e]; enclosing 0  *)
(* is null.  Frame 1 is the globals frame.                                 *)
(***************************************************************************)
EmptyMap == [k \in {} |-> Nil]
Put(map, k, v) == (k :> v) @@ map

Globals == 1

NewEnvironment(st, enclosing) ==
  [st EXCEPT !.envs = Append(@, [values |-> EmptyMap, enclosing |-> enclosing])]

\* obj[name] on the plain object holding a frame's values
ReadProp(values, name) ==
  IF name \in DOMAIN values THEN values[name]
  ELSE IF name \in ObjectPrototypeProps THEN HostProp(name)
  ELSE Undefined

\* name in obj
InValues(values, name) == name \in DOMAIN values \/ name \in ObjectPrototypeProps

RECURSIVE ancestor(_, _, _)
ancestor(st, env, distance) ==
  IF distance = 0 \/ env = 0 THEN env
  ELSE ancestor(st, st.envs[env].enclosing, distance - 1)

\* a frame's map is read or written under a name; frame 0: there was no frame
Access(st, op, frame, name) ==
  Emit(st, [ev |-> "access", op |-> op, frame |-> frame, name |-> name,
            present |-> frame # 0 /\ name \in DOMAIN st.envs[frame].values])

getAt(st, env, distance, name) ==
  With(ancestor(st, env, distance), LAMBDA a :
    IF a = 0 THEN TypeError(Access(st, "getAt", a, name), "Cannot read properties of null")
    ELSE Ok(Access(st, "getAt", a, name), ReadProp(st.envs[a].values, name)))

assignAt(st, env, distance, name, value) ==
  With(ancestor(st, env, distance), LAMBDA a :
    IF a = 0 THEN TypeError(Access(st, "assignAt", a, name), "Cannot read properties of null")
    ELSE Ok([Access(st, "assignAt", a, name) EXCEPT !.envs[a].values = Put(@, name, value)],
            value))

define(st, env, name, value) == [st EXCEPT !.envs[env].values = Put(@, name, value)]

RECURSIVE get(_, _, _)
get(st, env, name) ==
  IF InValues(st.envs[env].values, name)
  THEN Ok(Access(st, "get", env, name), ReadProp(st.envs[env].values, name))
  ELSE IF st.envs[env].enclosing # 0 THEN get(st, st.envs[env].enclosing, name)
  ELSE RuntimeError(Access(st, "get", 0, name), "Undefined variable '" \o name \o "'")

RECURSIVE assign(_, _, _, _)
assign(st, env, name, value) ==
  IF InValues(st.envs[env].values, name)
  THEN Ok([Access(st, "assign", env, name) EXCEPT !.envs[env].values = Put(@, name, value)],
          value)
  ELSE IF st.envs[env].enclosing # 0 THEN assign(st, st.envs[env].enclosing, name, value)
  ELSE RuntimeError(Access(st, "assign", 0, name), "Undefined variable '" \o name \o "'.")

(***************************************************************************)
(* Resolver (src/src/resolver.ts).  rs is the resolver object: its scope   *)
(* stack, currentFunction, currentClass; with the two things it writes     *)
(* outside itself: locals (Interpreter.locals, through                     *)
(* Interpreter.resolve) and the reported errors (report sets hadError).    *)
(* log is the record of what the resolver did, and nesting the kinds of    *)
(* the function declarations, methods and lambdas whose bodies it is       *)
(* inside, outermost first.                                                *)
(***************************************************************************)
RECURSIVE resolveStatement(_, _), resolveExpression(_, _), resolve(_, _),
          resolveArgs(_, _), resolveFunction(_, _, _), resolveMethods(_, _)

NewResolver ==
  [scopes |-> <<>>, currentFunction |-> "NONE", currentClass |-> "NONE",
   locals |-> [k \in {} |-> 0], errors |-> <<>>, hadError |-> FALSE,
   log |-> <<>>, nesting |-> <<>>]

\* the resolver with an event added to its log
Note(rs, event) == [rs EXCEPT !.log = Append(@, event)]

\* the state of a name in the innermost scope
NameState(rs, name) ==
  IF Len(rs.scopes) = 0 THEN "global"
  ELSE IF name \notin DOMAIN rs.scopes[Len(rs.scopes)] THEN "undeclared"
  ELSE IF rs.scopes[Len(rs.scopes)][name] THEN "defined"
  ELSE "declared"

\* the resolver inside the body of a function, method or lambda, and outside it again
Enter(rs, kind) == [rs EXCEPT !.nesting = Append(@, kind)]
Leave(rs) == [rs EXCEPT !.nesting = SubSeq(@, 1, Len(@) - 1)]

\* a report that prints the message and leaves hadError as it was
errorWithoutFlag(rs, name, message) == [rs EXCEPT !.errors = Append(@, message)]

\* lox.error -> report (src/src/error.ts): print the message, set hadError
error(rs, name, message) ==
  [rs EXCEPT !.errors = Append(@, message), !.hadError = TRUE]

\* Interpreter.resolve
interpreterResolve(rs, expr, depth) == [rs EXCEPT !.locals = (expr.id :> depth) @@ @]

beginScope(rs) == [rs EXCEPT !.scopes = Append(@, [k \in {} |-> FALSE])]

endScope(rs) ==
  IF rs.scopes = <<>> THEN rs ELSE [rs EXCEPT !.scopes = SubSeq(@, 1, Len(@) - 1)]

\* declare that looks for the name in every scope
declareInAnyScope(rs, name) ==
  IF Len(rs.scopes) = 0
  THEN Note(rs, [ev |-> "declare", name |-> name, was |-> "global", reported |-> <<>>])
  ELSE LET r1 == IF \E k \in 1 .. Len(rs.scopes) : name \in DOMAIN rs.scopes[k]
                 THEN error(rs, name, "Already a variable with this name in this scope.")
                 ELSE rs
       IN Note([r1 EXCEPT !.scopes[Len(rs.scopes)] = (name :> FALSE) @@ @],
               [ev |-> "declare", name |-> name, was |-> NameState(rs, name),
                reported |-> SubSeq(r1.errors, Len(rs.errors) + 1, Len(r1.errors))])

declare(rs, name) ==
  IF Len(rs.scopes) = 0
  THEN Note(rs, [ev |-> "declare", name |-> name, was |-> "global", reported |-> <<>>])
  ELSE LET scope == rs.scopes[Len(rs.scopes)]
           r1 == IF name \in DOMAIN scope
                 THEN error(rs, name, "Already a variable with this name in this scope.")
                 ELSE rs
       IN Note([r1 EXCEPT !.scopes[Len(rs.scopes)] = (name :> FALSE) @@ @],
               [ev |-> "declare", name |-> name, was |-> NameState(rs, name),
                reported |-> SubSeq(r1.errors, Len(rs.errors) + 1, Len(r1.errors))])

resolverDefine(rs, name) ==
  IF Len(rs.scopes) = 0
  THEN Note(rs, [ev |-> "define", name |-> name, was |-> "global", reported |-> <<>>])
  ELSE Note([rs EXCEPT !.scopes[Len(rs.scopes)] = (name :> TRUE) @@ @],
            [ev |-> "define", name |-> name, was |-> NameState(rs, name),
             reported |-> <<>>])

RECURSIVE declareParams(_, _)
declareParams(rs, params) ==
  IF params = <<>> THEN rs
  ELSE declareParams(resolverDefine(declare(rs, Head(params)), Head(params)), Tail(params))

\* the innermost scope index i, from i downwards, that has the name; 0 if none
RECURSIVE findScope(_, _, _)
findScope(scopes, i, name) ==
  IF i = 0 THEN 0
  ELSE IF name \in DOMAIN scopes[i] THEN i
  ELSE findScope(scopes, i - 1, name)

\* resolveLocal with the scopes counted from the outermost instead of the innermost
resolveLocalFromOutermost(rs, expr, name) ==
  LET i == findScope(rs.scopes, Len(rs.scopes), name)
  IN IF i = 0 THEN rs ELSE interpreterResolve(rs, expr, i - 1)

resolveLocal(rs, expr, name) ==
  LET i == findScope(rs.scopes, Len(rs.scopes), name)
  IN IF i = 0 THEN rs ELSE interpreterResolve(rs, expr, Len(rs.scopes) - i)

resolverVisitBlockStmt(rs, stmt) == endScope(resolve(beginScope(rs), stmt.statements))

resolverVisitVarStmt(rs, stmt) ==
  LET r1 == declare(rs, stmt.name)
      r2 == IF stmt.initializer.type # "null" THEN resolveExpression(r1, stmt.initializer)
            ELSE r1
  IN resolverDefine(r2, stmt.name)

resolverVisitVariableExpr(rs, expr) ==
  LET r1 == IF /\ Len(rs.scopes) # 0
               /\ expr.name \in DOMAIN rs.scopes[Len(rs.scopes)]
               /\ rs.scopes[Len(rs.scopes)][expr.name] = FALSE
            THEN error(rs, expr.name, "Can't read local variable in its own initializer.")
            ELSE rs
  IN resolveLocal(Note(r1, [ev |-> "read", name |-> expr.name,
                            was |-> NameState(rs, expr.name),
                            reported |-> SubSeq(r1.errors, Len(rs.errors) + 1,
                                                Len(r1.errors))]),
                  expr, expr.name)

resolverVisitAssignExpr(rs, expr) ==
  resolveLocal(resolveExpression(rs, expr.value), expr, expr.name)

resolverVisitThisExpr(rs, expr) ==
  IF rs.currentClass = "NONE"
  THEN error(rs, expr.name, "can't use 'this' outside of a class.")
  ELSE resolveLocal(rs, expr, expr.name)

resolverVisitLambdaExpr(rs, expr) ==
  Leave(endScope(resolve(declareParams(beginScope(Enter(rs, "LAMBDA")), expr.params),
                         expr.body)))

resolverVisitFunctionStmt(rs, stmt) ==
  resolveFunction(resolverDefine(declare(rs, stmt.name), stmt.name), stmt, "FUNCTION")

resolverVisitIfStmt(rs, stmt) ==
  LET r1 == resolveStatement(resolveExpression(rs, stmt.condition), stmt.thenBranch)
  IN IF stmt.elseBranch.type # "null" THEN resolveStatement(r1, stmt.elseBranch) ELSE r1

resolverVisitReturnStmt(rs, stmt) ==
  LET r1 == IF rs.currentFunction = "NONE"
            THEN error(rs, "return", "Can't return from top-level code")
            ELSE rs
      r2 == IF stmt.value.type # "null" /\ r1.currentFunction = "INITIALIZER"
            THEN error(r1, "return", "Can't return a value from an intiailizer")
            ELSE r1
      r3 == Note(r2, [ev |-> "return", nesting |-> rs.nesting,
                      currentFunction |-> rs.currentFunction,
                      value |-> stmt.value.type # "null",
                      reported |-> SubSeq(r2.errors, Len(rs.errors) + 1, Len(r2.errors))])
  IN IF stmt.value.type # "null" THEN resolveExpression(r3, stmt.value) ELSE r3

resolverVisitWhileStmt(rs, stmt) ==
  resolveStatement(resolveExpression(rs, stmt.condition), stmt.body)

\* visitClassStmt that ends one scope whether or not there is a superclass
resolverVisitClassStmtOneEndScope(rs, stmt) ==
  LET enclosingClass == rs.currentClass
      r1 == resolverDefine(declare([rs EXCEPT !.currentClass = "CLASS"], stmt.name), stmt.name)
      r3 == IF stmt.superclass.type # "null"
            THEN resolveExpression([r1 EXCEPT !.currentClass = "SUBCLASS"], stmt.superclass)
            ELSE r1
      r4 == IF stmt.superclass.type # "null"
            THEN LET b == beginScope(r3)
                 IN [b EXCEPT !.scopes[Len(b.scopes)] = ("super" :> TRUE) @@ @]
            ELSE r3
      r5 == LET b == beginScope(r4)
            IN [b EXCEPT !.scopes[Len(b.scopes)] = ("this" :> TRUE) @@ @]
      r6 == endScope(resolveMethods(r5, stmt.methods))
  IN [r6 EXCEPT !.currentClass = enclosingClass]

resolverVisitClassStmt(rs, stmt) ==
  LET enclosingClass == rs.currentClass
      r1 == resolverDefine(declare([rs EXCEPT !.currentClass = "CLASS"], stmt.name), stmt.name)
      r2 == IF stmt.superclass.type # "null" /\ stmt.name = stmt.superclass.name
            THEN error(r1, stmt.superclass.name, "A class can't inherit from itself.")
            ELSE r1
      r3 == IF stmt.superclass.type # "null"
            THEN resolveExpression([r2 EXCEPT !.currentClass = "SUBCLASS"], stmt.superclass)
            ELSE r2
      r4 == IF stmt.superclass.type # "null"
            THEN LET b == beginScope(r3)
                 IN [b EXCEPT !.scopes[Len(b.scopes)] = ("super" :> TRUE) @@ @]
            ELSE r3
      r5 == LET b == beginScope(r4)
            IN [b EXCEPT !.scopes[Len(b.scopes)] = ("this" :> TRUE) @@ @]
      r6 == endScope(resolveMethods(r5, stmt.methods))
      r7 == IF stmt.superclass.type # "null" THEN endScope(r6) ELSE r6
  IN [r7 EXCEPT !.currentClass = enclosingClass]

resolveMethods(rs, methods) ==
  IF methods = <<>> THEN rs
  ELSE LET method == Head(methods)
           declaration == IF method.name = "init" THEN "INITIALIZER" ELSE "METHOD"
       IN resolveMethods(resolveFunction(rs, method, declaration), Tail(methods))

resolverVisitSuperExpr(rs, expr) ==
  LET r1 == IF rs.currentClass = "NONE"
            THEN error(rs, expr.name, "Can't use 'super' outside of a class.")
            ELSE IF rs.currentClass # "SUBCLASS"
            THEN error(rs, expr.name, "Can't use 'super' keyword in a class with no superclass.")
            ELSE rs
  IN resolveLocal(r1, expr, expr.name)

resolve(rs, stmts) ==
  IF stmts = <<>> THEN rs ELSE resolve(resolveStatement(rs, Head(stmts)), Tail(stmts))

resolveArgs(rs, args) ==
  IF args = <<>> THEN rs ELSE resolveArgs(resolveExpression(rs, Head(args)), Tail(args))

resolveFunction(rs, func, type) ==
  LET enclosingFunction == rs.currentFunction
      r1 == declareParams(beginScope(Enter([rs EXCEPT !.currentFunction = type], type)),
                          func.params)
      r2 == Leave(endScope(resolve(r1, func.body)))
  IN [r2 EXCEPT !.currentFunction = enclosingFunction]

resolveStatement(rs, stmt) ==
  LET m == accept(stmt)
  IN Strict(rs, CASE m = "visitBlockStmt" -> resolverVisitBlockStmt(rs, stmt)
       [] m = "visitVarStmt" -> resolverVisitVarStmt(rs, stmt)
       [] m = "visitFunctionStmt" -> resolverVisitFunctionStmt(rs, stmt)
       [] m = "visitExpressionStmt" -> resolveExpression(rs, stmt.expression)
       [] m = "visitIfStmt" -> resolverVisitIfStmt(rs, stmt)
       [] m = "visitPrintStmt" -> resolveExpression(rs, stmt.expression)
       [] m = "visitReturnStmt" -> resolverVisitReturnStmt(rs, stmt)
       [] m = "visitWhileStmt" -> resolverVisitWhileStmt(rs, stmt)
       [] m = "visitClassStmt" -> resolverVisitClassStmt(rs, stmt))

resolveExpression(rs, expr) ==
  LET m == accept(expr)
  IN Strict(rs, CASE m = "visitVariableExpr" -> resolverVisitVariableExpr(rs, expr)
       [] m = "visitAssignExpr" -> resolverVisitAssignExpr(rs, expr)
       [] m = "visitThisExpr" -> resolverVisitThisExpr(rs, expr)
       [] m = "visitLambdaExpr" -> resolverVisitLambdaExpr(rs, expr)
       [] m = "visitBinaryExpr" ->
            resolveExpression(resolveExpression(rs, expr.left), expr.right)
       [] m = "visitTernaryExpr" ->
            resolveExpression(
              resolveExpression(resolveExpression(rs, expr.condition), expr.thenArm),
              expr.elseArm)
       [] m = "visitCallExpr" -> resolveArgs(resolveExpression(rs, expr.callee), expr.args)
       [] m = "visitGroupingExpr" -> resolveExpression(rs, expr.expression)
       [] m = "visitLiteralExpr" -> rs
       [] m = "visitLogicalExpr" ->
            resolveExpression(resolveExpression(rs, expr.left), expr.right)
       [] m = "visitUnaryExpr" -> resolveExpression(rs, expr.right)
       [] m = "visitGetExpr" -> resolveExpression(rs, expr.object)
       [] m = "visitSetExpr" ->
            resolveExpression(resolveExpression(rs, expr.value), expr.object)
       [] m = "visitSuperExpr" -> resolverVisitSuperExpr(rs, expr))

(***************************************************************************)
(* Value semantics of the evaluator (class Interpreter, src/src/lox.js)    *)
(* and of the host-language conversions it calls.                          *)
(***************************************************************************)
\* numerals the model can read back from a string
Numerals == -9 .. 9

\* Number(v)
ToNumber(v) ==
  CASE v.t = "num" -> v
    [] v.t = "nil" -> Num(0)
    [] v.t = "bool" -> Num(v.n)
    [] v.t = "str" ->
         IF v.s = "" THEN Num(0)
         ELSE IF \E k \in Numerals : ToString(k) = v.s
              THEN Num(CHOOSE k \in Numerals : ToString(k) = v.s)
              ELSE NaN
    [] OTHER -> NaN

\* Boolean(v)
ToBoolean(v) ==
  CASE v.t \in {"nil", "undefined"} -> FALSE
    [] v.t = "bool" -> v.n = 1
    [] v.t = "num" -> ~(IsNaN(v) \/ v.n = 0)
    [] v.t = "str" -> v.s # ""
    [] OTHER -> TRUE

\* a === b
StrictEquals(a, b) == a = b /\ ~IsNaN(a)

\* Number.prototype.toString; a fraction that is no integer is shown as n/d
NumberToString(v) ==
  IF IsNaN(v) THEN "NaN"
  ELSE IF v.d = 1 THEN ToString(v.n)
  ELSE ToString(v.n) \o "/" \o ToString(v.d)

\* the toString method of a function, class or instance (src/src/types.ts)
ObjectToString(st, v) ==
  CASE v.t = "fn" -> "<fn " \o st.fns[v.n].declaration.name \o " >"
    [] v.t = "class" -> st.classes[v.n].name
    [] v.t = "instance" -> st.classes[st.instances[v.n].klass].name \o " instance"
    [] v.t = "native" -> "<native fn>"
    [] OTHER -> "function " \o v.s \o "() { [native code] }"

\* String(v)
ToStringJs(st, v) ==
  CASE v.t = "nil" -> "null"
    [] v.t = "undefined" -> "undefined"
    [] v.t = "bool" -> IF v.n = 1 THEN "true" ELSE "false"
    [] v.t = "num" -> NumberToString(v)
    [] v.t = "str" -> v.s
    [] OTHER -> ObjectToString(st, v)

NumAdd(a, b) == IF IsNaN(a) \/ IsNaN(b) THEN NaN ELSE Frac(a.n * b.d + b.n * a.d, a.d * b.d)
NumSub(a, b) == IF IsNaN(a) \/ IsNaN(b) THEN NaN ELSE Frac(a.n * b.d - b.n * a.d, a.d * b.d)
NumMul(a, b) == IF IsNaN(a) \/ IsNaN(b) THEN NaN ELSE Frac(a.n * b.n, a.d * b.d)
\* b is not zero
NumDiv(a, b) == IF IsNaN(a) \/ IsNaN(b) THEN NaN ELSE Frac(a.n * b.d, a.d * b.n)
NumNeg(a) == IF IsNaN(a) THEN NaN ELSE Frac(-a.n, a.d)
NumLess(a, b) == ~IsNaN(a) /\ ~IsNaN(b) /\ a.n * b.d < b.n * a.d
NumLessEq(a, b) == ~IsNaN(a) /\ ~IsNaN(b) /\ a.n * b.d <= b.n * a.d
NumIsZero(a) == ~IsNaN(a) /\ a.n = 0

isTruthy(object) ==
  IF object.t = "nil" THEN FALSE
  ELSE IF object.t = "bool" THEN object.n = 1
  ELSE TRUE

isEqual(a, b) ==
  IF a.t = "nil" /\ b.t = "nil" THEN TRUE
  ELSE IF a.t = "nil" THEN FALSE
  ELSE StrictEquals(a, b)

stringify(st, object) ==
  IF object.t = "nil" THEN Ok(st, Str("nil"))
  ELSE IF object.t = "num" THEN Ok(st, Str(NumberToString(object)))
  ELSE IF object.t = "undefined"
  THEN TypeError(st, "Cannot read properties of undefined (reading 'toString')")
  ELSE Ok(st, Str(ToStringJs(st, object)))

checkNumberOperand(st, operand) ==
  IF operand.t = "num" THEN Ok(st, Nil) ELSE RuntimeError(st, "Operator must be a number.")

checkNumberOperands(st, left, right) ==
  IF left.t = "num" /\ right.t = "num" THEN Ok(st, Nil)
  ELSE RuntimeError(st, "Operator must be a number.")

\* isInstanceOfLoxCallable (src/src/types.ts): "call" in object; the in operator
\* throws on a value that is not an object
isInstanceOfLoxCallable(st, object) ==
  IF object.t \in {"nil", "undefined", "bool", "num", "str"}
  THEN TypeError(st, "Cannot use 'in' operator to search for 'call'")
  ELSE Ok(st, Bool(object.t \in {"fn", "class", "native", "hostprop"}))

(***************************************************************************)
(* The evaluator (class Interpreter, src/src/lox.js) with the callables    *)
(* and instances of src/src/types.ts.  st is the interpreter object        *)
(* (environment, locals) with the heap it works on: frames (envs),         *)
(* functions (fns), classes, instances; output is what console.log         *)
(* printed; trace and depth record what was done, for the properties.      *)
(***************************************************************************)
RECURSIVE visit(_, _), executeBlock(_, _, _), executeStatements(_, _),
          evaluateArgs(_, _, _), functionCall(_, _, _), classCall(_, _, _),
          whileLoop(_, _)

\* Interpreter.evaluate: expr.accept(this)
evaluate(st, expr) == visit(st, expr)

\* Interpreter.execute: stmt.accept(this)
execute(st, stmt) ==
  visit(Emit(st, [ev |-> "exec", type |-> stmt.type, depth |-> st.depth]), stmt)

NewInterpreter(locals) ==
  [environment |-> Globals,
   envs |-> <<[values |-> ("clock" :> ClockFn), enclosing |-> 0]>>,
   fns |-> <<>>, classes |-> <<>>, instances |-> <<>>,
   locals |-> locals, output |-> <<>>, trace |-> <<>>, depth |-> 0]

HasLocal(st, expr) == expr.id \in DOMAIN st.locals

\* new LoxFunction(declaration, closure, isInitializer); its address is Len(fns)
NewLoxFunction(st, declaration, closure, isInitializer) ==
  [st EXCEPT !.fns = Append(@, [declaration |-> declaration, closure |-> closure,
                                isInitializer |-> isInitializer])]

\* LoxClass.findMethod; 0 is undefined
RECURSIVE findMethod(_, _, _)
findMethod(st, klass, name) ==
  LET methods == st.classes[klass].methods
      own == IF name \in DOMAIN methods THEN methods[name] ELSE 0
  IN IF name \in MapPrototypeProps THEN own
     ELSE IF st.classes[klass].superclass # 0
          THEN findMethod(st, st.classes[klass].superclass, name)
          ELSE own

\* LoxFunction.bind: the result's val is the bound function
bind(st, fn, instance) ==
  With(NewEnvironment(st, st.fns[fn].closure), LAMBDA s1 :
  With(Len(s1.envs), LAMBDA environment :
  With(NewLoxFunction(define(s1, environment, "this", instance),
                      s1.fns[fn].declaration, environment, s1.fns[fn].isInitializer),
       LAMBDA s2 : Ok(s2, FnRef(Len(s2.fns))))))

\* LoxInstance.get
instanceGet(st, instance, name) ==
  With(findMethod(st, st.instances[instance].klass, name), LAMBDA method :
    IF name \in DOMAIN st.instances[instance].fields
    THEN Ok(st, st.instances[instance].fields[name])
    ELSE IF method # 0 THEN bind(st, method, InstanceRef(instance))
    ELSE RuntimeError(st, "Undefined property '" \o name \o "'."))

\* LoxInstance.set
instanceSet(st, instance, name, value) ==
  [st EXCEPT !.instances[instance].fields = Put(@, name, value)]

\* LoxCallable.arity of a value that passed isInstanceOfLoxCallable; -1: not a function
arity(st, callee) ==
  CASE callee.t = "fn" -> Len(st.fns[callee.n].declaration.params)
    [] callee.t = "class" ->
         LET initializer == findMethod(st, callee.n, "init")
         IN IF initializer # 0 THEN Len(st.fns[initializer].declaration.params) ELSE 0
    [] callee.t = "native" -> 0
    [] OTHER -> -1

\* Map.get on Interpreter.locals; -1 is undefined
localsGet(st, expr) == IF HasLocal(st, expr) THEN st.locals[expr.id] ELSE -1

\* what a variable access is about to do: the frame it addresses and whether the name
\* is there
Lookup(st, kind, expr, name, distance) ==
  With(IF distance # -1 THEN ancestor(st, st.environment, distance) ELSE Globals,
       LAMBDA frame :
    Emit(st, [ev |-> "lookup", kind |-> kind, id |-> expr.id, name |-> name,
              distance |-> distance, current |-> st.environment, frame |-> frame,
              found |-> frame # 0 /\ name \in DOMAIN st.envs[frame].values]))

lookUpVariable(st, name, expr) ==
  With(localsGet(st, expr), LAMBDA distance :
  With(Lookup(st, "read", expr, name, distance), LAMBDA s1 :
    IF distance # -1 THEN getAt(s1, s1.environment, distance, name)
    ELSE get(s1, Globals, name)))

visitLiteralExpr(st, expr) == Ok(st, expr.value)

visitGroupingExpr(st, expr) == evaluate(st, expr.expression)

\* what an operator was applied to and what came of it
Applied(done, operator, left, right) ==
  R(Emit(done.st, [ev |-> "operation", operator |-> operator, left |-> left,
                   right |-> right, raised |-> done.sig # "none", result |-> done.val]),
    done.val, done.sig, done.msg)

visitUnaryExpr(st, expr) ==
  With(evaluate(st, expr.right), LAMBDA right :
    IF right.sig # "none" THEN right
    ELSE CASE expr.operator = "BANG" ->
                Ok(Emit(right.st, [ev |-> "test", construct |-> "!", value |-> right.val,
                                   decision |-> isTruthy(right.val)]),
                   Bool(~isTruthy(right.val)))
           [] expr.operator = "MINUS" ->
                Applied(Ok(right.st, NumNeg(ToNumber(right.val))), "NEGATE", Undefined,
                        right.val)
           [] OTHER -> Ok(right.st, Nil))

binaryOperation(st, operator, left, right) ==
  LET both == checkNumberOperands(st, left, right)
      l == ToNumber(left)
      r == ToNumber(right)
  IN CASE operator = "GREATER" -> IF both.sig # "none" THEN both ELSE Ok(st, Bool(NumLess(r, l)))
       [] operator = "GREATER_EQUAL" ->
            IF both.sig # "none" THEN both ELSE Ok(st, Bool(NumLessEq(r, l)))
       [] operator = "LESS" -> IF both.sig # "none" THEN both ELSE Ok(st, Bool(NumLess(l, r)))
       [] operator = "LESS_EQUAL" ->
            IF both.sig # "none" THEN both ELSE Ok(st, Bool(NumLessEq(l, r)))
       [] operator = "MINUS" ->
            LET one == checkNumberOperand(st, right)
            IN IF one.sig # "none" THEN one ELSE Ok(st, NumSub(l, r))
       [] operator = "PLUS" ->
            IF left.t = "num" /\ right.t = "num" THEN Ok(st, NumAdd(l, r))
            ELSE IF left.t = "str" /\ right.t = "str" THEN Ok(st, Str(left.s \o right.s))
            ELSE IF left.t = "str" \/ right.t = "str"
            THEN Ok(st, Str(ToStringJs(st, left) \o ToStringJs(st, right)))
            ELSE RuntimeError(st, "Operands must be two numbers or two strings.")
       [] operator = "SLASH" ->
            IF both.sig # "none" THEN both
            ELSE IF NumIsZero(r) THEN RuntimeError(st, "Cannot divide by 0")
            ELSE Ok(st, NumDiv(l, r))
       [] operator = "STAR" -> IF both.sig # "none" THEN both ELSE Ok(st, NumMul(l, r))
       [] operator = "BANG_EQUAL" -> Ok(st, Bool(isEqual(left, right)))
       [] operator = "EQUAL_EQUAL" -> Ok(st, Bool(isEqual(left, right)))
       [] OTHER -> Ok(st, Nil)

visitBinaryExpr(st, expr) ==
  With(evaluate(st, expr.left), LAMBDA left :
    IF left.sig # "none" THEN left
    ELSE With(evaluate(left.st, expr.right), LAMBDA right :
      IF right.sig # "none" THEN right
      ELSE Applied(binaryOperation(right.st, expr.operator, left.val, right.val),
                   expr.operator, left.val, right.val)))

visitTernaryExpr(st, expr) ==
  With(evaluate(st, expr.condition), LAMBDA condition :
    IF condition.sig # "none" THEN condition
    ELSE With(evaluate(condition.st, expr.thenArm), LAMBDA thenArm :
      IF thenArm.sig # "none" THEN thenArm
      ELSE With(evaluate(thenArm.st, expr.elseArm), LAMBDA elseArm :
        IF elseArm.sig # "none" THEN elseArm
        ELSE Ok(Emit(Emit(elseArm.st,
                          [ev |-> "ternary", condition |-> condition.val,
                           thenEvaluated |-> TRUE, elseEvaluated |-> TRUE]),
                     [ev |-> "test", construct |-> "?:", value |-> condition.val,
                      decision |-> ToBoolean(condition.val)]),
                IF ToBoolean(condition.val) THEN thenArm.val ELSE elseArm.val))))

visitVariableExpr(st, expr) == lookUpVariable(st, expr.name, expr)

visitAssignExpr(st, expr) ==
  With(evaluate(st, expr.value), LAMBDA value :
    IF value.sig # "none" THEN value
    ELSE With(localsGet(value.st, expr), LAMBDA distance :
         With(Lookup(value.st, "write", expr, expr.name, distance), LAMBDA s1 :
         With(IF distance # -1
              THEN assignAt(s1, s1.environment, distance, expr.name, value.val)
              ELSE assign(s1, Globals, expr.name, value.val), LAMBDA done :
           IF done.sig # "none" THEN done ELSE Ok(done.st, value.val)))))

\* visitLogicalExpr with the right operand evaluated before the left one is tested
visitLogicalExprEager(st, expr) ==
  With(evaluate(st, expr.left), LAMBDA left :
    IF left.sig # "none" THEN left
    ELSE With(evaluate(left.st, expr.right), LAMBDA right :
      IF right.sig # "none" THEN right
      ELSE With(Emit(right.st, [ev |-> "test", construct |-> expr.operator,
                                value |-> left.val, decision |-> isTruthy(left.val)]),
                LAMBDA s1 :
        With(IF (IF expr.operator = "OR" THEN isTruthy(left.val) ELSE ~isTruthy(left.val))
             THEN left.val ELSE right.val, LAMBDA result :
          Ok(Emit(s1, [ev |-> "logical", operator |-> expr.operator, left |-> left.val,
                       rightEvaluated |-> TRUE, result |-> result]),
             result)))))

visitLogicalExpr(st, expr) ==
  With(evaluate(st, expr.left), LAMBDA left :
    IF left.sig # "none" THEN left
    ELSE With(Emit(left.st, [ev |-> "test", construct |-> expr.operator,
                             value |-> left.val, decision |-> isTruthy(left.val)]),
              LAMBDA s1 :
      IF (IF expr.operator = "OR" THEN isTruthy(left.val) ELSE ~isTruthy(left.val))
      THEN Ok(Emit(s1, [ev |-> "logical", operator |-> expr.operator, left |-> left.val,
                        rightEvaluated |-> FALSE, result |-> left.val]),
              left.val)
      ELSE With(evaluate(s1, expr.right), LAMBDA right :
        IF right.sig # "none" THEN right
        ELSE Ok(Emit(right.st, [ev |-> "logical", operator |-> expr.operator,
                                left |-> left.val, rightEvaluated |-> TRUE,
                                result |-> right.val]),
                right.val))))

\* expr.args.map((arg) => this.evaluate(arg)): acc is the values so far; the result's
\* vals are the argument values
evaluateArgs(st, args, acc) ==
  IF args = <<>> THEN [st |-> st, val |-> Nil, sig |-> "none", msg |-> "", vals |-> acc]
  ELSE With(evaluate(st, Head(args)), LAMBDA arg :
    IF arg.sig # "none"
    THEN [st |-> arg.st, val |-> arg.val, sig |-> arg.sig, msg |-> arg.msg, vals |-> acc]
    ELSE evaluateArgs(arg.st, Tail(args), Append(acc, arg.val)))

visitCallExpr(st, expr) ==
  With(evaluate(st, expr.callee), LAMBDA callee :
    IF callee.sig # "none" THEN callee
    ELSE With(evaluateArgs(callee.st, expr.args, <<>>), LAMBDA args :
      IF args.sig # "none" THEN R(args.st, args.val, args.sig, args.msg)
      ELSE With(isInstanceOfLoxCallable(args.st, callee.val), LAMBDA callable :
        IF callable.sig # "none" THEN callable
        ELSE IF callable.val = Bool(FALSE)
        THEN RuntimeError(args.st, "Can only call functions and classes")
        ELSE With(arity(args.st, callee.val), LAMBDA expected :
          IF expected = -1 THEN TypeError(args.st, "func.arity is not a function")
          ELSE IF Len(args.vals) # expected
          THEN RuntimeError(args.st, "Expected " \o ToString(expected) \o
                                     " arguments, but got " \o ToString(Len(args.vals)) \o ".")
          ELSE CASE callee.val.t = "fn" -> functionCall(args.st, callee.val.n, args.vals)
                 [] callee.val.t = "class" -> classCall(args.st, callee.val.n, args.vals)
                 [] OTHER -> Ok(args.st, Num(0))))))

visitGetExpr(st, expr) ==
  With(evaluate(st, expr.object), LAMBDA object :
    IF object.sig # "none" THEN object
    ELSE IF object.val.t = "instance" THEN instanceGet(object.st, object.val.n, expr.name)
    ELSE RuntimeError(object.st, "Only instances have properties."))

visitSetExpr(st, expr) ==
  With(evaluate(st, expr.object), LAMBDA object :
    IF object.sig # "none" THEN object
    ELSE IF object.val.t # "instance"
    THEN RuntimeError(object.st, "Only instances have fields.")
    ELSE With(evaluate(object.st, expr.value), LAMBDA value :
      IF value.sig # "none" THEN value
      ELSE Ok(instanceSet(value.st, object.val.n, expr.name, value.val), value.val)))

visitThisExpr(st, expr) == lookUpVariable(st, expr.name, expr)

\* the method found by visitSuperExpr, bound to the object
superMethod(st, expr, distance, superclass, object) ==
  With(findMethod(st, superclass.n, expr.method), LAMBDA method :
  With(Emit(st, [ev |-> "super", superclass |-> superclass.n, name |-> expr.method,
                 method |-> method, object |-> object,
                 thisFrame |-> ancestor(st, st.environment, distance - 1)]), LAMBDA s2 :
    IF method = 0 THEN RuntimeError(s2, "Undefined property '" \o expr.method \o "'")
    ELSE bind(s2, method, object)))

visitSuperExpr(st, expr) ==
  With(localsGet(st, expr), LAMBDA distance :
    IF distance = -1 \/ distance = 0 THEN RuntimeError(st, "Super expression not found")
    ELSE With(getAt(Lookup(st, "super", expr, "super", distance), st.environment,
                    distance, "super"), LAMBDA superclass :
      IF superclass.sig # "none" THEN superclass
      ELSE IF superclass.val.t # "class"
      THEN RuntimeError(superclass.st, "Invalid super usage")
      ELSE With(getAt(superclass.st, st.environment, distance - 1, "this"), LAMBDA object :
        IF object.sig # "none" THEN object
        ELSE IF object.val.t # "instance" THEN RuntimeError(object.st, "Invalid super usage")
        ELSE superMethod(object.st, expr, distance, superclass.val, object.val))))

\* the parameter loop of LoxFunction.call
RECURSIVE defineParams(_, _, _, _, _)
defineParams(st, environment, params, args, i) ==
  IF i > Len(params) THEN st
  ELSE defineParams(define(st, environment, params[i],
                           IF i <= Len(args) THEN args[i] ELSE Undefined),
                    environment, params, args, i + 1)

\* LoxFunction.call whose catch clause returns the value the return signal carries,
\* initializer or not
functionCallReturningValue(st, fn, args) ==
  With(st.fns[fn], LAMBDA f :
  With(NewEnvironment(st, f.closure), LAMBDA s1 :
  With(Len(s1.envs), LAMBDA environment :
  With(defineParams(s1, environment, f.declaration.params, args, 1), LAMBDA s2 :
  With(executeBlock([s2 EXCEPT !.depth = @ + 1], f.declaration.body, environment),
       LAMBDA body :
  With([body.st EXCEPT !.depth = @ - 1], LAMBDA s3 :
  With(getAt(s3, f.closure, 0, "this"), LAMBDA this :
  With(IF body.sig # "none"
       THEN body.val
       ELSE IF f.isInitializer THEN this.val ELSE Nil, LAMBDA result :
    Ok(Emit(s3, [ev |-> "call", fn |-> fn, closure |-> f.closure, frame |-> environment,
                 parent |-> s2.envs[environment].enclosing, caller |-> st.environment,
                 after |-> s3.environment, fresh |-> environment > Len(st.envs),
                 bound |-> DOMAIN s2.envs[environment].values,
                 others |-> SubSeq(s2.envs, 1, Len(st.envs)) = st.envs,
                 isInitializer |-> f.isInitializer, exit |-> body.sig,
                 this |-> this.val, result |-> result]),
       result)))))))))

\* LoxFunction.call with the new frame enclosed by the caller's current frame
functionCallInCallerFrame(st, fn, args) ==
  With(st.fns[fn], LAMBDA f :
  With(NewEnvironment(st, st.environment), LAMBDA s1 :
  With(Len(s1.envs), LAMBDA environment :
  With(defineParams(s1, environment, f.declaration.params, args, 1), LAMBDA s2 :
  With(executeBlock([s2 EXCEPT !.depth = @ + 1], f.declaration.body, environment),
       LAMBDA body :
  With([body.st EXCEPT !.depth = @ - 1], LAMBDA s3 :
  With(getAt(s3, f.closure, 0, "this"), LAMBDA this :
  With(IF body.sig # "none"
       THEN IF f.isInitializer THEN this.val ELSE body.val
       ELSE IF f.isInitializer THEN this.val ELSE Nil, LAMBDA result :
    Ok(Emit(s3, [ev |-> "call", fn |-> fn, closure |-> f.closure, frame |-> environment,
                 parent |-> s2.envs[environment].enclosing, caller |-> st.environment,
                 after |-> s3.environment, fresh |-> environment > Len(st.envs),
                 bound |-> DOMAIN s2.envs[environment].values,
                 others |-> SubSeq(s2.envs, 1, Len(st.envs)) = st.envs,
                 isInitializer |-> f.isInitializer, exit |-> body.sig,
                 this |-> this.val, result |-> result]),
       result)))))))))

\* LoxFunction.call
functionCall(st, fn, args) ==
  With(st.fns[fn], LAMBDA f :
  With(NewEnvironment(st, f.closure), LAMBDA s1 :
  With(Len(s1.envs), LAMBDA environment :
  With(defineParams(s1, environment, f.declaration.params, args, 1), LAMBDA s2 :
  With(executeBlock([s2 EXCEPT !.depth = @ + 1], f.declaration.body, environment),
       LAMBDA body :
  With([body.st EXCEPT !.depth = @ - 1], LAMBDA s3 :
  With(getAt(s3, f.closure, 0, "this"), LAMBDA this :
  With(IF body.sig # "none"
       THEN IF f.isInitializer THEN this.val ELSE body.val
       ELSE IF f.isInitializer THEN this.val ELSE Nil, LAMBDA result :
    Ok(Emit(s3, [ev |-> "call", fn |-> fn, closure |-> f.closure, frame |-> environment,
                 parent |-> s2.envs[environment].enclosing, caller |-> st.environment,
                 after |-> s3.environment, fresh |-> environment > Len(st.envs),
                 bound |-> DOMAIN s2.envs[environment].values,
                 others |-> SubSeq(s2.envs, 1, Len(st.envs)) = st.envs,
                 isInitializer |-> f.isInitializer, exit |-> body.sig,
                 this |-> this.val, result |-> result]),
       result)))))))))

\* LoxClass.call
classCall(st, klass, args) ==
  With([st EXCEPT !.instances = Append(@, [klass |-> klass, fields |-> EmptyMap])],
       LAMBDA s1 :
  With(InstanceRef(Len(s1.instances)), LAMBDA instance :
  With(findMethod(s1, klass, "init"), LAMBDA initializer :
  With(IF initializer # 0
       THEN With(bind(s1, initializer, instance), LAMBDA bound :
                 functionCall(bound.st, bound.val.n, args))
       ELSE Ok(s1, Undefined), LAMBDA called :
    IF called.sig # "none" THEN called
    ELSE Ok(Emit(called.st, [ev |-> "instantiate", klass |-> klass, instance |-> instance,
                             before |-> Len(st.instances),
                             initializer |-> initializer, returned |-> called.val,
                             result |-> instance]),
            instance)))))

visitExpressionStmt(st, stmt) ==
  LET value == evaluate(st, stmt.expression)
  IN IF value.sig # "none" THEN value ELSE Ok(value.st, Nil)

visitIfStmt(st, stmt) ==
  LET condition == evaluate(st, stmt.condition)
  IN IF condition.sig # "none" THEN condition
     ELSE LET s1 == Emit(condition.st, [ev |-> "test", construct |-> "if",
                                        value |-> condition.val,
                                        decision |-> isTruthy(condition.val)])
          IN IF isTruthy(condition.val) THEN execute(s1, stmt.thenBranch)
             ELSE IF stmt.elseBranch.type # "null" THEN execute(s1, stmt.elseBranch)
             ELSE Ok(s1, Nil)

visitPrintStmt(st, stmt) ==
  LET value == evaluate(st, stmt.expression)
  IN IF value.sig # "none" THEN value
     ELSE LET text == stringify(value.st, value.val)
          IN IF text.sig # "none" THEN text
             ELSE Ok([text.st EXCEPT !.output = Append(@, text.val.s)], Nil)

visitVarStmt(st, stmt) ==
  LET value == IF stmt.initializer.type # "null" THEN evaluate(st, stmt.initializer)
               ELSE Ok(st, Nil)
  IN IF value.sig # "none" THEN value
     ELSE Ok(define(value.st, value.st.environment, stmt.name, value.val), Nil)

visitBlockStmt(st, stmt) ==
  LET s1 == NewEnvironment(st, st.environment)
  IN executeBlock(s1, stmt.statements, Len(s1.envs))

\* the loop of visitWhileStmt
whileLoop(st, stmt) ==
  LET condition == evaluate(st, stmt.condition)
  IN IF condition.sig # "none" THEN condition
     ELSE LET s1 == Emit(condition.st, [ev |-> "test", construct |-> "while",
                                        value |-> condition.val,
                                        decision |-> isTruthy(condition.val)])
          IN IF ~isTruthy(condition.val) THEN Ok(s1, Nil)
             ELSE LET body == execute(s1, stmt.body)
                  IN IF body.sig # "none" THEN body ELSE whileLoop(body.st, stmt)

visitWhileStmt(st, stmt) == whileLoop(st, stmt)

visitFunctionStmt(st, stmt) ==
  LET s1 == NewLoxFunction(st, stmt, st.environment, FALSE)
  IN Ok(define(s1, s1.environment, stmt.name, FnRef(Len(s1.fns))), Nil)

visitReturnStmt(st, stmt) ==
  LET value == IF stmt.value.type # "null" THEN evaluate(st, stmt.value) ELSE Ok(st, Nil)
  IN IF value.sig # "none" THEN value ELSE R(value.st, value.val, "Return", "")

\* the method loop of visitClassStmt: acc is the methods map built so far
RECURSIVE classMethods(_, _, _, _)
classMethods(st, methods, environment, acc) ==
  IF methods = <<>> THEN [st |-> st, methods |-> acc]
  ELSE LET method == Head(methods)
           s1 == NewLoxFunction(st, method, environment, method.name = "init")
       IN classMethods(s1, Tail(methods), environment, Put(acc, method.name, Len(s1.fns)))

visitClassStmt(st, stmt) ==
  LET hasSuper == stmt.superclass.type # "null"
      superclass == IF hasSuper THEN evaluate(st, stmt.superclass) ELSE Ok(st, Nil)
  IN IF superclass.sig # "none" THEN superclass
     ELSE IF hasSuper /\ superclass.val.t # "class"
     THEN RuntimeError(superclass.st, "Superclass must be a class.")
     ELSE LET s1 == define(superclass.st, superclass.st.environment, stmt.name, Nil)
              s2 == IF hasSuper
                    THEN LET n == NewEnvironment(s1, s1.environment)
                         IN define(n, Len(n.envs), "super", superclass.val)
                    ELSE s1
              environment == IF hasSuper THEN Len(s2.envs) ELSE s2.environment
              built == classMethods(s2, stmt.methods, environment, [k \in {} |-> 0])
              s3 == [built.st EXCEPT !.classes =
                       Append(@, [name |-> stmt.name,
                                  superclass |-> IF hasSuper THEN superclass.val.n ELSE 0,
                                  methods |-> built.methods])]
              target == IF hasSuper THEN s3.envs[environment].enclosing ELSE environment
          IN IF target = 0 THEN TypeError(s3, "Cannot read properties of null")
             ELSE LET assigned == assign(s3, target, stmt.name, ClassRef(Len(s3.classes)))
                  IN IF assigned.sig # "none" THEN assigned ELSE Ok(assigned.st, Nil)

\* the statement loop of executeBlock and of interpret
executeStatements(st, stmts) ==
  IF stmts = <<>> THEN Ok(st, Nil)
  ELSE LET first == execute(st, Head(stmts))
       IN IF first.sig # "none" THEN first ELSE executeStatements(first.st, Tail(stmts))

\* executeBlock without its finally clause: the previous frame is restored only when
\* the last statement completes
executeBlockWithoutFinally(st, stmts, environment) ==
  With(st.environment, LAMBDA previousEnvironment :
  With(executeStatements([st EXCEPT !.environment = environment], stmts), LAMBDA body :
  With(IF body.sig = "none" THEN [body.st EXCEPT !.environment = previousEnvironment]
       ELSE body.st, LAMBDA s1 :
    R(Emit(s1, [ev |-> "block", previous |-> previousEnvironment, entered |-> environment,
                inside |-> body.st.environment, after |-> s1.environment,
                exit |-> body.sig]),
      body.val, body.sig, body.msg))))

executeBlock(st, stmts, environment) ==
  With(st.environment, LAMBDA previousEnvironment :
  With(executeStatements([st EXCEPT !.environment = environment], stmts), LAMBDA body :
  With([body.st EXCEPT !.environment = previousEnvironment], LAMBDA s1 :
    R(Emit(s1, [ev |-> "block", previous |-> previousEnvironment, entered |-> environment,
                inside |-> body.st.environment, after |-> s1.environment,
                exit |-> body.sig]),
      body.val, body.sig, body.msg))))

\* node.accept(visitor) for the evaluator: the call of the method accept names
visit(st, node) ==
  LET m == accept(node)
  IN CASE m = "visitLiteralExpr" -> visitLiteralExpr(st, node)
       [] m = "visitGroupingExpr" -> visitGroupingExpr(st, node)
       [] m = "visitUnaryExpr" -> visitUnaryExpr(st, node)
       [] m = "visitBinaryExpr" -> visitBinaryExpr(st, node)
       [] m = "visitTernaryExpr" -> visitTernaryExpr(st, node)
       [] m = "visitVariableExpr" -> visitVariableExpr(st, node)
       [] m = "visitAssignExpr" -> visitAssignExpr(st, node)
       [] m = "visitLogicalExpr" -> visitLogicalExpr(st, node)
       [] m = "visitCallExpr" -> visitCallExpr(st, node)
       [] m = "visitGetExpr" -> visitGetExpr(st, node)
       [] m = "visitSetExpr" -> visitSetExpr(st, node)
       [] m = "visitThisExpr" -> visitThisExpr(st, node)
       [] m = "visitSuperExpr" -> visitSuperExpr(st, node)
       [] m = "visitExpressionStmt" -> visitExpressionStmt(st, node)
       [] m = "visitIfStmt" -> visitIfStmt(st, node)
       [] m = "visitPrintStmt" -> visitPrintStmt(st, node)
       [] m = "visitVarStmt" -> visitVarStmt(st, node)
       [] m = "visitBlockStmt" -> visitBlockStmt(st, node)
       [] m = "visitWhileStmt" -> visitWhileStmt(st, node)
       [] m = "visitFunctionStmt" -> visitFunctionStmt(st, node)
       [] m = "visitReturnStmt" -> visitReturnStmt(st, node)
       [] m = "visitClassStmt" -> visitClassStmt(st, node)
       [] OTHER -> TypeError(st, "visitor." \o m \o " is not a function")

(***************************************************************************)
(* Programs: what scanning and parsing a source text yields.  The Lox      *)
(* source of each is given above it; h1 and h2 are literals of the source. *)
(***************************************************************************)
Holes == {Nil, Bool(TRUE), Bool(FALSE), Str(""), Str("a")} \cup {Num(k) : k \in 0 .. MaxNum}

\* fun make() { var i = 0; fun inc() { i = i + 1; return i; } return inc; }
\* var c = make(); print c(); print c(); print c();
CounterProgram ==
  << FunctionStmt("make", <<>>,
       << VarStmt("i", LiteralExpr(Num(0))),
          FunctionStmt("inc", <<>>,
            << ExpressionStmt(AssignExpr(1, "i",
                 BinaryExpr(VariableExpr(2, "i"), "PLUS", LiteralExpr(Num(1))))),
               ReturnStmt(VariableExpr(3, "i")) >>),
          ReturnStmt(VariableExpr(4, "inc")) >>),
     VarStmt("c", CallExpr(VariableExpr(5, "make"), <<>>)),
     PrintStmt(CallExpr(VariableExpr(6, "c"), <<>>)),
     PrintStmt(CallExpr(VariableExpr(7, "c"), <<>>)),
     PrintStmt(CallExpr(VariableExpr(8, "c"), <<>>)) >>

\* fun f(a) { { var b = a; return 1 / b; } } print f(1); f(h1); print "after";
ErrorInCallProgram(h1) ==
  << FunctionStmt("f", <<"a">>,
       << BlockStmt(<< VarStmt("b", VariableExpr(1, "a")),
                       ReturnStmt(BinaryExpr(LiteralExpr(Num(1)), "SLASH",
                                             VariableExpr(2, "b"))) >>) >>),
     PrintStmt(CallExpr(VariableExpr(3, "f"), <<LiteralExpr(Num(1))>>)),
     ExpressionStmt(CallExpr(VariableExpr(4, "f"), <<LiteralExpr(h1)>>)),
     PrintStmt(LiteralExpr(Str("after"))) >>

\* print 1 / h1; print "after";
ErrorAtTopProgram(h1) ==
  << PrintStmt(BinaryExpr(LiteralExpr(Num(1)), "SLASH", LiteralExpr(h1))),
     PrintStmt(LiteralExpr(Str("after"))) >>

\* class A { greet() { print "hi"; } }
\* class B < A { greet() { super.greet(); print "there"; } }
\* B().greet();
GreetProgram ==
  << ClassStmt("A", NoExpr,
       << FunctionStmt("greet", <<>>, << PrintStmt(LiteralExpr(Str("hi"))) >>) >>),
     ClassStmt("B", VariableExpr(1, "A"),
       << FunctionStmt("greet", <<>>,
            << ExpressionStmt(CallExpr(SuperExpr(2, "greet"), <<>>)),
               PrintStmt(LiteralExpr(Str("there"))) >>) >>),
     ExpressionStmt(CallExpr(GetExpr(CallExpr(VariableExpr(3, "B"), <<>>), "greet"), <<>>)) >>

\* class A {} class B < A { only() { print "b"; } } B().only(); print "after";
SubclassOnlyProgram ==
  << ClassStmt("A", NoExpr, <<>>),
     ClassStmt("B", VariableExpr(1, "A"),
       << FunctionStmt("only", <<>>, << PrintStmt(LiteralExpr(Str("b"))) >>) >>),
     ExpressionStmt(CallExpr(GetExpr(CallExpr(VariableExpr(2, "B"), <<>>), "only"), <<>>)),
     PrintStmt(LiteralExpr(Str("after"))) >>

\* class R {} class A < R { m() { return "A"; } }
\* class B < A { get() { return super.m(); } } var r = B().get(); print "after";
SuperSkipsProgram ==
  << ClassStmt("R", NoExpr, <<>>),
     ClassStmt("A", VariableExpr(1, "R"),
       << FunctionStmt("m", <<>>, << ReturnStmt(LiteralExpr(Str("A"))) >>) >>),
     ClassStmt("B", VariableExpr(2, "A"),
       << FunctionStmt("get", <<>>,
            << ReturnStmt(CallExpr(SuperExpr(3, "m"), <<>>)) >>) >>),
     VarStmt("r", CallExpr(GetExpr(CallExpr(VariableExpr(4, "B"), <<>>), "get"), <<>>)),
     PrintStmt(LiteralExpr(Str("after"))) >>

\* class A { m() { return this; } } class B < A { get() { return super.m(); } }
\* var b = B(); print b.get() == b;
SuperThisProgram ==
  << ClassStmt("A", NoExpr,
       << FunctionStmt("m", <<>>, << ReturnStmt(ThisExpr(1)) >>) >>),
     ClassStmt("B", VariableExpr(2, "A"),
       << FunctionStmt("get", <<>>,
            << ReturnStmt(CallExpr(SuperExpr(3, "m"), <<>>)) >>) >>),
     VarStmt("b", CallExpr(VariableExpr(4, "B"), <<>>)),
     PrintStmt(BinaryExpr(CallExpr(GetExpr(VariableExpr(5, "b"), "get"), <<>>),
                          "EQUAL_EQUAL", VariableExpr(6, "b"))) >>

\* class R { m() { return "R"; } } class A < R { m() { return "A"; } }
\* class B < A { get() { return super.m(); } } print B().get();
SuperOverrideProgram ==
  << ClassStmt("R", NoExpr,
       << FunctionStmt("m", <<>>, << ReturnStmt(LiteralExpr(Str("R"))) >>) >>),
     ClassStmt("A", VariableExpr(1, "R"),
       << FunctionStmt("m", <<>>, << ReturnStmt(LiteralExpr(Str("A"))) >>) >>),
     ClassStmt("B", VariableExpr(2, "A"),
       << FunctionStmt("get", <<>>,
            << ReturnStmt(CallExpr(SuperExpr(3, "m"), <<>>)) >>) >>),
     PrintStmt(CallExpr(GetExpr(CallExpr(VariableExpr(4, "B"), <<>>), "get"), <<>>)) >>

\* class P { init(x) { if (x) return; print "fell"; } }
\* var p = P(h1); print p; print p.init(h2) == p;
InitProgram(h1, h2) ==
  << ClassStmt("P", NoExpr,
       << FunctionStmt("init", <<"x">>,
            << IfStmt(VariableExpr(1, "x"), ReturnStmt(NoExpr), NoExpr),
               PrintStmt(LiteralExpr(Str("fell"))) >>) >>),
     VarStmt("p", CallExpr(VariableExpr(2, "P"), <<LiteralExpr(h1)>>)),
     PrintStmt(VariableExpr(3, "p")),
     PrintStmt(BinaryExpr(CallExpr(GetExpr(VariableExpr(4, "p"), "init"),
                                   <<LiteralExpr(h2)>>),
                          "EQUAL_EQUAL", VariableExpr(5, "p"))) >>

\* class Q { init(x) { print 1 / x; } } print Q(h1);
InitErrorProgram(h1) ==
  << ClassStmt("Q", NoExpr,
       << FunctionStmt("init", <<"x">>,
            << PrintStmt(BinaryExpr(LiteralExpr(Num(1)), "SLASH",
                                    VariableExpr(1, "x"))) >>) >>),
     PrintStmt(CallExpr(VariableExpr(2, "Q"), <<LiteralExpr(h1)>>)) >>

\* var n = 0; var r = h1 or (n = h2); print r; print n;      (operator: OR)
\* var n = 0; var r = h1 and (n = h2); print r; print n;     (operator: AND)
LogicalProgram(operator, h1, h2) ==
  << VarStmt("n", LiteralExpr(Num(0))),
     VarStmt("r", LogicalExpr(LiteralExpr(h1), operator,
                              GroupingExpr(AssignExpr(1, "n", LiteralExpr(h2))))),
     PrintStmt(VariableExpr(2, "r")),
     PrintStmt(VariableExpr(3, "n")) >>

\* var n = 0; print h1 ? (n = 1) : (n = 2); print n;
TernaryProgram(h1) ==
  << VarStmt("n", LiteralExpr(Num(0))),
     PrintStmt(TernaryExpr(LiteralExpr(h1),
                           GroupingExpr(AssignExpr(1, "n", LiteralExpr(Num(1)))),
                           GroupingExpr(AssignExpr(2, "n", LiteralExpr(Num(2)))))),
     PrintStmt(VariableExpr(3, "n")) >>

\* print h1 ? 1 : 1 / 0; print "after";
TernaryErrorProgram(h1) ==
  << PrintStmt(TernaryExpr(LiteralExpr(h1), LiteralExpr(Num(1)),
                           BinaryExpr(LiteralExpr(Num(1)), "SLASH", LiteralExpr(Num(0))))),
     PrintStmt(LiteralExpr(Str("after"))) >>

\* if (h1) print "t"; else print "e";  if (h1) { print "t"; }  print !h1;
\* var k = h1; while (k) { print "loop"; k = nil; }
\* print h1 ? "t" : "e"; print h1 and "r"; print h1 or "r";
TruthinessProgram(h1) ==
  << IfStmt(LiteralExpr(h1), PrintStmt(LiteralExpr(Str("t"))),
            PrintStmt(LiteralExpr(Str("e")))),
     IfStmt(LiteralExpr(h1), BlockStmt(<< PrintStmt(LiteralExpr(Str("t"))) >>), NoExpr),
     PrintStmt(UnaryExpr("BANG", LiteralExpr(h1))),
     VarStmt("k", LiteralExpr(h1)),
     WhileStmt(VariableExpr(1, "k"),
               BlockStmt(<< PrintStmt(LiteralExpr(Str("loop"))),
                            ExpressionStmt(AssignExpr(2, "k", LiteralExpr(Nil))) >>)),
     PrintStmt(TernaryExpr(LiteralExpr(h1), LiteralExpr(Str("t")), LiteralExpr(Str("e")))),
     PrintStmt(LogicalExpr(LiteralExpr(h1), "AND", LiteralExpr(Str("r")))),
     PrintStmt(LogicalExpr(LiteralExpr(h1), "OR", LiteralExpr(Str("r")))) >>

\* var a = 1; { var a = 2; { print a / h1; } } print a;
BlockErrorProgram(h1) ==
  << VarStmt("a", LiteralExpr(Num(1))),
     BlockStmt(<< VarStmt("a", LiteralExpr(Num(2))),
                  BlockStmt(<< PrintStmt(BinaryExpr(VariableExpr(1, "a"), "SLASH",
                                                    LiteralExpr(h1))) >>) >>),
     PrintStmt(VariableExpr(2, "a")) >>

\* var a = "g";
\* { var a = "o"; { var b = a; fun f(p) { { return a + b + p; } } print f("x");
\*   a = "w"; print a; } }
\* print a;
NestedScopesProgram ==
  << VarStmt("a", LiteralExpr(Str("g"))),
     BlockStmt(<< VarStmt("a", LiteralExpr(Str("o"))),
        BlockStmt(<< VarStmt("b", VariableExpr(1, "a")),
           FunctionStmt("f", <<"p">>,
             << BlockStmt(<< ReturnStmt(
                  BinaryExpr(BinaryExpr(VariableExpr(2, "a"), "PLUS", VariableExpr(3, "b")),
                             "PLUS", VariableExpr(4, "p"))) >>) >>),
           PrintStmt(CallExpr(VariableExpr(5, "f"), <<LiteralExpr(Str("x"))>>)),
           ExpressionStmt(AssignExpr(6, "a", LiteralExpr(Str("w")))),
           PrintStmt(VariableExpr(7, "a")) >>) >>),
     PrintStmt(VariableExpr(8, "a")) >>

\* var a = "g"; { fun showA() { print a; } showA(); var a = "b"; showA(); print a; }
CaptureProgram ==
  << VarStmt("a", LiteralExpr(Str("g"))),
     BlockStmt(<< FunctionStmt("showA", <<>>, << PrintStmt(VariableExpr(1, "a")) >>),
                  ExpressionStmt(CallExpr(VariableExpr(2, "showA"), <<>>)),
                  VarStmt("a", LiteralExpr(Str("b"))),
                  ExpressionStmt(CallExpr(VariableExpr(3, "showA"), <<>>)),
                  PrintStmt(VariableExpr(4, "a")) >>) >>

\* fun fib(n) { if (n < 2) return n; return fib(n - 1) + fib(n - 2); } print fib(3);
FibProgram ==
  << FunctionStmt("fib", <<"n">>,
       << IfStmt(BinaryExpr(VariableExpr(1, "n"), "LESS", LiteralExpr(Num(2))),
                 ReturnStmt(VariableExpr(2, "n")), NoExpr),
          ReturnStmt(BinaryExpr(
            CallExpr(VariableExpr(3, "fib"),
                     <<BinaryExpr(VariableExpr(4, "n"), "MINUS", LiteralExpr(Num(1)))>>),
            "PLUS",
            CallExpr(VariableExpr(5, "fib"),
                     <<BinaryExpr(VariableExpr(6, "n"), "MINUS", LiteralExpr(Num(2)))>>))) >>),
     PrintStmt(CallExpr(VariableExpr(7, "fib"), <<LiteralExpr(Num(3))>>)) >>

\* class A { m() { return "A"; } }
\* class B < A { get() { fun inner() { { return super.m(); } } return inner; }
\*               has() { return this; } }
\* var b = B(); var g = b.get(); print g(); print b.has() == b;
NestedSuperProgram ==
  << ClassStmt("A", NoExpr,
       << FunctionStmt("m", <<>>, << ReturnStmt(LiteralExpr(Str("A"))) >>) >>),
     ClassStmt("B", VariableExpr(1, "A"),
       << FunctionStmt("get", <<>>,
            << FunctionStmt("inner", <<>>,
                 << BlockStmt(<< ReturnStmt(CallExpr(SuperExpr(2, "m"), <<>>)) >>) >>),
               ReturnStmt(VariableExpr(3, "inner")) >>),
          FunctionStmt("has", <<>>, << ReturnStmt(ThisExpr(4)) >>) >>),
     VarStmt("b", CallExpr(VariableExpr(5, "B"), <<>>)),
     VarStmt("g", CallExpr(GetExpr(VariableExpr(6, "b"), "get"), <<>>)),
     PrintStmt(CallExpr(VariableExpr(7, "g"), <<>>)),
     PrintStmt(BinaryExpr(CallExpr(GetExpr(VariableExpr(8, "b"), "has"), <<>>),
                          "EQUAL_EQUAL", VariableExpr(9, "b"))) >>

\* { var a = a; }
OwnInitializerProgram ==
  << BlockStmt(<< VarStmt("a", VariableExpr(1, "a")) >>) >>

\* print "before"; return h1;
TopLevelReturnProgram(h1) ==
  << PrintStmt(LiteralExpr(Str("before"))), ReturnStmt(LiteralExpr(h1)) >>

\* print this;
ThisOutsideClassProgram ==
  << PrintStmt(ThisExpr(1)) >>

\* class A { m() { return super.m(); } } print A().m();
SuperWithoutSuperclassProgram ==
  << ClassStmt("A", NoExpr,
       << FunctionStmt("m", <<>>, << ReturnStmt(CallExpr(SuperExpr(1, "m"), <<>>)) >>) >>),
     PrintStmt(CallExpr(GetExpr(CallExpr(VariableExpr(2, "A"), <<>>), "m"), <<>>)) >>

\* print h1 == h2; print h1 != h2;
EqualityProgram(h1, h2) ==
  << PrintStmt(BinaryExpr(LiteralExpr(h1), "EQUAL_EQUAL", LiteralExpr(h2))),
     PrintStmt(BinaryExpr(LiteralExpr(h1), "BANG_EQUAL", LiteralExpr(h2))) >>

\* fun f() {} class K {} var i = K(); var j = K();
\* print f == f; print i == i; print i == j; print K == K; print f == K; print i == nil;
ReferenceEqualityProgram ==
  << FunctionStmt("f", <<>>, <<>>),
     ClassStmt("K", NoExpr, <<>>),
     VarStmt("i", CallExpr(VariableExpr(1, "K"), <<>>)),
     VarStmt("j", CallExpr(VariableExpr(2, "K"), <<>>)),
     PrintStmt(BinaryExpr(VariableExpr(3, "f"), "EQUAL_EQUAL", VariableExpr(4, "f"))),
     PrintStmt(BinaryExpr(VariableExpr(5, "i"), "EQUAL_EQUAL", VariableExpr(6, "i"))),
     PrintStmt(BinaryExpr(VariableExpr(7, "i"), "EQUAL_EQUAL", VariableExpr(8, "j"))),
     PrintStmt(BinaryExpr(VariableExpr(9, "K"), "EQUAL_EQUAL", VariableExpr(10, "K"))),
     PrintStmt(BinaryExpr(VariableExpr(11, "f"), "EQUAL_EQUAL", VariableExpr(12, "K"))),
     PrintStmt(BinaryExpr(VariableExpr(13, "i"), "EQUAL_EQUAL", LiteralExpr(Nil))) >>

\* print h1 <operator> h2; print "after";
BinaryProgram(operator, h1, h2) ==
  << PrintStmt(BinaryExpr(LiteralExpr(h1), operator, LiteralExpr(h2))),
     PrintStmt(LiteralExpr(Str("after"))) >>

\* print -h1; print "after";
NegateProgram(h1) ==
  << PrintStmt(UnaryExpr("MINUS", LiteralExpr(h1))),
     PrintStmt(LiteralExpr(Str("after"))) >>

\* class K {} var i = K(); fun f() {} var x = "hi "; x = x + 42; print x;
\* print "s" + i; print f + "s"; print K + "s"; print i + 1;
PlusObjectsProgram ==
  << ClassStmt("K", NoExpr, <<>>),
     VarStmt("i", CallExpr(VariableExpr(1, "K"), <<>>)),
     FunctionStmt("f", <<>>, <<>>),
     VarStmt("x", LiteralExpr(Str("hi "))),
     ExpressionStmt(AssignExpr(2, "x",
       BinaryExpr(VariableExpr(3, "x"), "PLUS", LiteralExpr(Num(42))))),
     PrintStmt(VariableExpr(4, "x")),
     PrintStmt(BinaryExpr(LiteralExpr(Str("s")), "PLUS", VariableExpr(5, "i"))),
     PrintStmt(BinaryExpr(VariableExpr(6, "f"), "PLUS", LiteralExpr(Str("s")))),
     PrintStmt(BinaryExpr(VariableExpr(7, "K"), "PLUS", LiteralExpr(Str("s")))),
     PrintStmt(BinaryExpr(VariableExpr(8, "i"), "PLUS", LiteralExpr(Num(1)))) >>

\* fun f() { print "body"; } print "before"; h1(); f(); print "after";
CallValueProgram(h1) ==
  << FunctionStmt("f", <<>>, << PrintStmt(LiteralExpr(Str("body"))) >>),
     PrintStmt(LiteralExpr(Str("before"))),
     ExpressionStmt(CallExpr(LiteralExpr(h1), <<>>)),
     ExpressionStmt(CallExpr(VariableExpr(1, "f"), <<>>)),
     PrintStmt(LiteralExpr(Str("after"))) >>

\* class K {} var i = K(); i(); print "after";
CallInstanceProgram ==
  << ClassStmt("K", NoExpr, <<>>),
     VarStmt("i", CallExpr(VariableExpr(1, "K"), <<>>)),
     ExpressionStmt(CallExpr(VariableExpr(2, "i"), <<>>)),
     PrintStmt(LiteralExpr(Str("after"))) >>

\* fun f(a) { print "body"; } f(h1); f(); print "after";
ArityFewProgram(h1) ==
  << FunctionStmt("f", <<"a">>, << PrintStmt(LiteralExpr(Str("body"))) >>),
     ExpressionStmt(CallExpr(VariableExpr(1, "f"), <<LiteralExpr(h1)>>)),
     ExpressionStmt(CallExpr(VariableExpr(2, "f"), <<>>)),
     PrintStmt(LiteralExpr(Str("after"))) >>

\* class P { init(x) { print "body"; } } P(h1, h2); print "after";
ArityManyProgram(h1, h2) ==
  << ClassStmt("P", NoExpr,
       << FunctionStmt("init", <<"x">>, << PrintStmt(LiteralExpr(Str("body"))) >>) >>),
     ExpressionStmt(CallExpr(VariableExpr(1, "P"), <<LiteralExpr(h1), LiteralExpr(h2)>>)),
     PrintStmt(LiteralExpr(Str("after"))) >>

\* var f = fun () { return h1; }; print f();
LambdaReturnProgram(h1) ==
  << VarStmt("f", LambdaExpr(<<>>, << ReturnStmt(LiteralExpr(h1)) >>)),
     PrintStmt(CallExpr(VariableExpr(1, "f"), <<>>)) >>

\* class P { init() { var g = fun () { return 1; }; fun h() { return 2; } return; }
\*           m() { var g = fun () { return; }; return 3; } }
LambdaInMethodProgram ==
  << ClassStmt("P", NoExpr,
       << FunctionStmt("init", <<>>,
            << VarStmt("g", LambdaExpr(<<>>, << ReturnStmt(LiteralExpr(Num(1))) >>)),
               FunctionStmt("h", <<>>, << ReturnStmt(LiteralExpr(Num(1))) >>),
               ReturnStmt(NoExpr) >>),
          FunctionStmt("m", <<>>,
            << VarStmt("g", LambdaExpr(<<>>, << ReturnStmt(NoExpr) >>)),
               ReturnStmt(LiteralExpr(Num(1))) >>) >>) >>

\* class P { init() { return 1; } }  fun f() { return 1; }  return;
ReturnsProgram ==
  << ClassStmt("P", NoExpr,
       << FunctionStmt("init", <<>>, << ReturnStmt(LiteralExpr(Num(1))) >>) >>),
     FunctionStmt("f", <<>>, << ReturnStmt(LiteralExpr(Num(1))) >>),
     ReturnStmt(NoExpr) >>

\* var g = 1; var g = g; { var a = 1; var a = 2; { var a = a; var b = g; }
\*   fun f(p, p) { var p; } }
RedeclareProgram ==
  << VarStmt("g", LiteralExpr(Num(1))),
     VarStmt("g", VariableExpr(1, "g")),
     BlockStmt(<< VarStmt("a", LiteralExpr(Num(1))),
                  VarStmt("a", LiteralExpr(Num(1))),
                  BlockStmt(<< VarStmt("a", VariableExpr(2, "a")),
                               VarStmt("b", VariableExpr(3, "g")) >>),
                  FunctionStmt("f", <<"p", "p">>, << VarStmt("p", NoExpr) >>) >>) >>

\* var g = 1; var g = g; { var g = 0; { var g = 1; var b = g; print b; } print g; }
\* print g;
ShadowProgram ==
  << VarStmt("g", LiteralExpr(Num(1))),
     VarStmt("g", VariableExpr(1, "g")),
     BlockStmt(<< VarStmt("g", LiteralExpr(Num(0))),
                  BlockStmt(<< VarStmt("g", LiteralExpr(Num(1))),
                               VarStmt("b", VariableExpr(2, "g")),
                               PrintStmt(VariableExpr(3, "b")) >>),
                  PrintStmt(VariableExpr(4, "g")) >>),
     PrintStmt(VariableExpr(5, "g")) >>

\* class A < A { m() { return this; } }  { class B < B { init() { { return; } } } }
SelfInheritProgram ==
  << ClassStmt("A", VariableExpr(1, "A"),
       << FunctionStmt("m", <<>>, << ReturnStmt(ThisExpr(2)) >>) >>),
     BlockStmt(<< ClassStmt("B", VariableExpr(3, "B"),
                    << FunctionStmt("init", <<>>,
                         << BlockStmt(<< ReturnStmt(NoExpr) >>) >>) >>) >>) >>

\* var g = 0; { var l = 0; <name> = h1; } print "after";
AssignUndefinedProgram(name, h1) ==
  << VarStmt("g", LiteralExpr(Num(0))),
     BlockStmt(<< VarStmt("l", LiteralExpr(Num(0))),
                  ExpressionStmt(AssignExpr(1, name, LiteralExpr(h1))) >>),
     PrintStmt(LiteralExpr(Str("after"))) >>

\* the names AssignUndefinedProgram assigns to, by program number
UndefinedNames == <<"x", "toString">>

\* class K { f() { return "m"; } } var o = K(); var p = K();
\* print o.f = h1; print o.f; print o.g = h2; print o.g;
SetFieldProgram(h1, h2) ==
  << ClassStmt("K", NoExpr,
       << FunctionStmt("f", <<>>, << ReturnStmt(LiteralExpr(Str("m"))) >>) >>),
     VarStmt("o", CallExpr(VariableExpr(1, "K"), <<>>)),
     VarStmt("p", CallExpr(VariableExpr(2, "K"), <<>>)),
     PrintStmt(SetExpr(VariableExpr(3, "o"), "f", LiteralExpr(h1))),
     PrintStmt(GetExpr(VariableExpr(4, "o"), "f")),
     PrintStmt(SetExpr(VariableExpr(5, "o"), "g", LiteralExpr(h2))),
     PrintStmt(GetExpr(VariableExpr(6, "o"), "g")) >>

(***************************************************************************)
(* Scanner (src/src/scanner.ts).  A source text is a sequence of           *)
(* characters (strings of length one); sc is the scanner object: source,   *)
(* tokens, start, current, line; with the errors it reported (report sets  *)
(* hadError).  spans keeps, for each token pushed, the cursors start and   *)
(* current at the push, and comments, for each block comment, the cursors  *)
(* between which blockComment ran and whether it reported.                 *)
(***************************************************************************)
RECURSIVE Join(_)
\* the string made of the characters of a sequence
Join(chars) == IF chars = <<>> THEN "" ELSE Head(chars) \o Join(Tail(chars))

\* String.prototype.charAt, cursors counting from 0
charAt(source, i) == IF i >= 0 /\ i < Len(source) THEN source[i + 1] ELSE ""

\* String.prototype.substring for 0 <= from <= to
substring(source, from, to) ==
  Join(SubSeq(source, from + 1, IF to > Len(source) THEN Len(source) ELSE to))

\* what peek answers at the end of the source
NUL == "\\0"

Digits == {"0", "1", "2", "3", "4", "5", "6", "7", "8", "9"}

Letters ==
  {"a", "b", "c", "d", "e", "f", "g", "h", "i", "j", "k", "l", "m", "n", "o", "p", "q",
   "r", "s", "t", "u", "v", "w", "x", "y", "z", "_",
   "A", "B", "C", "D", "E", "F", "G", "H", "I", "J", "K", "L", "M", "N", "O", "P", "Q",
   "R", "S", "T", "U", "V", "W", "X", "Y", "Z"}

keywords ==
  [and |-> "AND", class |-> "CLASS", else |-> "ELSE", false |-> "FALSE", for |-> "FOR",
   fun |-> "FUN", if |-> "IF", nil |-> "NIL", or |-> "OR", print |-> "PRINT",
   return |-> "RETURN", super |-> "SUPER", this |-> "THIS", true |-> "TRUE",
   var |-> "VAR", while |-> "WHILE"]

\* new Token(type, lexeme, literal, line)
Token(type, lexeme, literal, line) ==
  [type |-> type, lexeme |-> lexeme, literal |-> literal, line |-> line]

\* new Scanner(source)
NewScanner(source) ==
  [source |-> source, tokens |-> <<>>, start |-> 0, current |-> 0, line |-> 1,
   errors |-> <<>>, hadError |-> FALSE, spans |-> <<>>, comments |-> <<>>]

isAtEnd(sc) == sc.current >= Len(sc.source)

isDigit(c) == c \in Digits

isAlpha(c) == c \in Letters

isAlphaNumeric(c) == isAlpha(c) \/ isDigit(c)

\* advance: the scanner after it; the character it returns is charAt(source, current)
advance(sc) == [sc EXCEPT !.current = @ + 1]

peek(sc) == IF isAtEnd(sc) THEN NUL ELSE charAt(sc.source, sc.current)

peekNext(sc) ==
  IF sc.current + 1 >= Len(sc.source) THEN NUL ELSE charAt(sc.source, sc.current + 1)

\* match: the scanner after it, and its answer
match(sc, expected) ==
  IF isAtEnd(sc) THEN [sc |-> sc, matched |-> FALSE]
  ELSE IF charAt(sc.source, sc.current) # expected THEN [sc |-> sc, matched |-> FALSE]
  ELSE [sc |-> advance(sc), matched |-> TRUE]

\* `match(first) && match(second)`: the second match is made only after the first
matchBoth(sc, first, second) ==
  With(match(sc, first), LAMBDA m :
    IF m.matched THEN match(m.sc, second) ELSE m)

addTokenWithLiteral(sc, type, literal) ==
  [sc EXCEPT !.tokens = Append(@, Token(type, substring(sc.source, sc.start, sc.current),
                                        literal, sc.line)),
             !.spans = Append(@, [start |-> sc.start, current |-> sc.current])]

addToken(sc, type) == addTokenWithLiteral(sc, type, Nil)

\* `if (this.peek() == "\n") this.line++;`
countLine(sc) == IF peek(sc) = "\n" THEN [sc EXCEPT !.line = @ + 1] ELSE sc

RECURSIVE stringLoop(_)
\* the while loop of string
stringLoop(sc) ==
  IF peek(sc) # "\"" /\ ~isAtEnd(sc) THEN stringLoop(advance(countLine(sc))) ELSE sc

string(sc) ==
  With(stringLoop(sc), LAMBDA body :
    IF isAtEnd(body) THEN error(body, body.line, "Unterminated string.")
    ELSE With(advance(body), LAMBDA closed :
           addTokenWithLiteral(closed, "STRING",
             Str(substring(closed.source, closed.start + 1, closed.current - 1)))))

RECURSIVE digitsLoop(_)
\* `while (this.isDigit(this.peek())) this.advance();`
digitsLoop(sc) == IF isDigit(peek(sc)) THEN digitsLoop(advance(sc)) ELSE sc

\* the value of a digit character
DigitValue(c) ==
  CASE c = "0" -> 0 [] c = "1" -> 1 [] c = "2" -> 2 [] c = "3" -> 3 [] c = "4" -> 4
    [] c = "5" -> 5 [] c = "6" -> 6 [] c = "7" -> 7 [] c = "8" -> 8 [] OTHER -> 9

RECURSIVE parseFloat(_, _, _)
\* parseFloat of digits with at most one decimal point, read from the left: p / q is
\* the number read so far, q > 1 once the point has been passed
parseFloat(chars, p, q) ==
  IF chars = <<>> THEN Frac(p, IF q = 0 THEN 1 ELSE q)
  ELSE IF Head(chars) = "." THEN parseFloat(Tail(chars), p, 1)
  ELSE parseFloat(Tail(chars), 10 * p + DigitValue(Head(chars)), 10 * q)

number(sc) ==
  With(digitsLoop(sc), LAMBDA whole :
    With(IF peek(whole) = "." /\ isDigit(peekNext(whole))
         THEN digitsLoop(advance(whole)) ELSE whole, LAMBDA all :
      addTokenWithLiteral(all, "NUMBER",
        parseFloat(SubSeq(all.source, all.start + 1, all.current), 0, 0))))

RECURSIVE identifierLoop(_)
\* `while (this.isAlphaNumeric(this.peek())) this.advance();`
identifierLoop(sc) == IF isAlphaNumeric(peek(sc)) THEN identifierLoop(advance(sc)) ELSE sc

identifier(sc) ==
  With(identifierLoop(sc), LAMBDA word :
    With(substring(word.source, word.start, word.current), LAMBDA text :
      addToken(word, IF text \in DOMAIN keywords THEN keywords[text] ELSE "IDENTIFIER")))

RECURSIVE blockCommentLoop(_, _)
\* the while loop of blockComment
blockCommentLoop(sc, openingCommentToken) ==
  IF openingCommentToken > 0 /\ ~isAtEnd(sc)
  THEN With(matchBoth(advance(countLine(sc)), "/", "*"), LAMBDA opening :
         With(matchBoth(opening.sc, "*", "/"), LAMBDA closing :
           blockCommentLoop(closing.sc,
             openingCommentToken + (IF opening.matched THEN 1 ELSE 0)
                                 - (IF closing.matched THEN 1 ELSE 0))))
  ELSE sc

blockComment(sc) ==
  With(blockCommentLoop(sc, 1), LAMBDA body :
    With([body EXCEPT !.comments = Append(@, [start |-> sc.start, current |-> body.current,
                                              reported |-> isAtEnd(body)])], LAMBDA noted :
      IF isAtEnd(noted) THEN error(noted, noted.line, "Unterminated comment.") ELSE noted))

RECURSIVE lineCommentLoop(_)
\* `while (this.peek() !== "\n" && !this.isAtEnd()) this.advance();`
lineCommentLoop(sc) ==
  IF peek(sc) # "\n" /\ ~isAtEnd(sc) THEN lineCommentLoop(advance(sc)) ELSE sc

\* the characters that are a token by themselves
SingleCharacterTokens ==
  [c \in {"(", ")", "{", "}", ",", ".", "-", "+", ";", "*"} |->
     CASE c = "(" -> "LEFT_PAREN" [] c = ")" -> "RIGHT_PAREN" [] c = "{" -> "LEFT_BRACE"
       [] c = "}" -> "RIGHT_BRACE" [] c = "," -> "COMMA" [] c = "." -> "DOT"
       [] c = "-" -> "MINUS" [] c = "+" -> "PLUS" [] c = ";" -> "SEMICOLON"
       [] OTHER -> "STAR"]

\* the characters that are a token alone and another one when "=" follows
OneOrTwoCharacterTokens ==
  [c \in {"!", "=", "<", ">"} |->
     CASE c = "!" -> <<"BANG", "BANG_EQUAL">> [] c = "=" -> <<"EQUAL", "EQUAL_EQUAL">>
       [] c = "<" -> <<"LESS", "LESS_EQUAL">> [] OTHER -> <<"GREATER", "GREATER_EQUAL">>]

scanToken(sc) ==
  With(charAt(sc.source, sc.current), LAMBDA char :
    With(advance(sc), LAMBDA s1 :
      CASE char \in DOMAIN SingleCharacterTokens -> addToken(s1, SingleCharacterTokens[char])
        [] char \in DOMAIN OneOrTwoCharacterTokens ->
             With(match(s1, "="), LAMBDA m :
               addToken(m.sc, OneOrTwoCharacterTokens[char][IF m.matched THEN 2 ELSE 1]))
        [] char = "/" ->
             With(match(s1, "/"), LAMBDA slash :
               IF slash.matched THEN lineCommentLoop(slash.sc)
               ELSE With(match(s1, "*"), LAMBDA star :
                      IF star.matched THEN blockComment(star.sc)
                      ELSE addToken(s1, "SLASH")))
        [] char \in {" ", "\r", "\t"} -> s1
        [] char = "\n" -> [s1 EXCEPT !.line = @ + 1]
        [] char = "\"" -> string(s1)
        [] OTHER -> IF isDigit(char) THEN number(s1)
                    ELSE IF isAlpha(char) THEN identifier(s1)
                    ELSE error(s1, s1.line, "Unexpected character.")))

\* one turn of the while loop of scanTokens
scanTokensTurn(sc) == scanToken([sc EXCEPT !.start = sc.current])

\* scanTokens after its loop
scanTokensEnd(sc) ==
  [sc EXCEPT !.tokens = Append(@, Token("EOF", "", Nil, sc.line)),
             !.spans = Append(@, [start |-> sc.current, current |-> sc.current])]

RECURSIVE scanTokens(_)
scanTokens(sc) == IF isAtEnd(sc) THEN scanTokensEnd(sc) ELSE scanTokens(scanTokensTurn(sc))

(***************************************************************************)
(* Parser (src/src/parser.ts).  ps is the parser object: tokens and        *)
(* current; with the statements parse has collected, the errors it         *)
(* reported, and four histories: reports (the token and message of each    *)
(* error), calls (each call of declaration, from entry to return),         *)
(* assigns (each "=" that assignment has parsed both sides of) and loops   *)
(* (each for statement built).  A rule answers Parsed(ps, node), or        *)
(* Thrown(ps) when a ParseError leaves it.                                 *)
(***************************************************************************)
\* new Parser(tokens)
NewParser(tokens) ==
  [tokens |-> tokens, current |-> 0, statements |-> <<>>, errors |-> <<>>,
   hadError |-> FALSE, reports |-> <<>>, calls |-> <<>>, assigns |-> <<>>, loops |-> <<>>]

Parsed(ps, node) == [ps |-> ps, node |-> node, thrown |-> FALSE]
Thrown(ps) == [ps |-> ps, node |-> NoExpr, thrown |-> TRUE]

\* what follows a call that may throw
Then(r, F(_)) == IF r.thrown THEN Thrown(r.ps) ELSE F(r)

parserPeek(ps) == ps.tokens[ps.current + 1]

parserPrevious(ps) == ps.tokens[ps.current]

parserIsAtEnd(ps) == parserPeek(ps).type = "EOF"

parserAdvance(ps) == IF ~parserIsAtEnd(ps) THEN [ps EXCEPT !.current = @ + 1] ELSE ps

parserCheck(ps, type) == IF parserIsAtEnd(ps) THEN FALSE ELSE parserPeek(ps).type = type

\* match(...types): whether it answers true; the caller advances
parserMatch(ps, types) == \E type \in types : parserCheck(ps, type)

\* Parser.error: lox.error reports at the token; the ParseError is the caller's to throw
parserError(ps, token, message) ==
  [error(ps, token, message) EXCEPT
     !.reports = Append(@, [type |-> token.type, lexeme |-> token.lexeme,
                            line |-> token.line, message |-> message])]

\* consume: the node of the answer is the token consumed
parserConsume(ps, type, message) ==
  IF parserCheck(ps, type) THEN Parsed(parserAdvance(ps), parserPeek(ps))
  ELSE Thrown(parserError(ps, parserPeek(ps), message))

\* the token types at which synchronize stops
StatementStarts == {"CLASS", "FUN", "VAR", "FOR", "IF", "WHILE", "PRINT", "RETURN"}

RECURSIVE synchronizeLoop(_)
\* the while loop of synchronize
synchronizeLoop(ps) ==
  IF parserIsAtEnd(ps) THEN ps
  ELSE IF parserPrevious(ps).type = "SEMICOLON" THEN ps
  ELSE IF parserPeek(ps).type \in StatementStarts THEN ps
  ELSE synchronizeLoop(parserAdvance(ps))

\* synchronize that leaves the cursor where the error was
synchronizeNowhere(ps) == ps

\* synchronize that skips one token and no more
synchronizeOneToken(ps) == parserAdvance(ps)

synchronize(ps) == synchronizeLoop(parserAdvance(ps))

\* an expression node is identified by the position of the token that made it
NodeId(ps) == ps.current

\* a for loop that keeps its blocks when the initializer or the increment is missing
forLoopAlwaysBlocks(initializer, condition, increment, body) ==
  BlockStmt(<<initializer,
              WhileStmt(IF condition = NoExpr THEN LiteralExpr(Bool(TRUE)) ELSE condition,
                        BlockStmt(<<body, ExpressionStmt(increment)>>))>>)

\* the end of forStatement: the loop built from the clauses; NoExpr is null
forLoop(initializer, condition, increment, body) ==
  With(IF increment # NoExpr THEN BlockStmt(<<body, ExpressionStmt(increment)>>) ELSE body,
    LAMBDA stepped :
      With(WhileStmt(IF condition = NoExpr THEN LiteralExpr(Bool(TRUE)) ELSE condition,
                     stepped),
        LAMBDA loop :
          IF initializer # NoExpr THEN BlockStmt(<<initializer, loop>>) ELSE loop))

RECURSIVE declaration(_), statement(_), block(_, _), function(_, _), parameters(_, _),
          classDeclaration(_), methodsLoop(_, _, _), varDeclaration(_),
          forStatement(_), ifStatment(_), printStatement(_), returnStatement(_),
          whileStatement(_), expressionStatement(_), expression(_), assignment(_),
          parserOr(_), orLoop(_, _), parserAnd(_), andLoop(_, _), equality(_),
          equalityLoop(_, _), comparison(_), comparisonLoop(_, _), term(_), termLoop(_, _),
          factor(_), factorLoop(_, _), unary(_), call(_), callLoop(_, _), finishCall(_, _),
          arguments(_, _), primary(_)

primary(ps) ==
  IF parserMatch(ps, {"FALSE"}) THEN Parsed(parserAdvance(ps), LiteralExpr(Bool(FALSE)))
  ELSE IF parserMatch(ps, {"TRUE"}) THEN Parsed(parserAdvance(ps), LiteralExpr(Bool(TRUE)))
  ELSE IF parserMatch(ps, {"NIL"}) THEN Parsed(parserAdvance(ps), LiteralExpr(Nil))
  ELSE IF parserMatch(ps, {"NUMBER", "STRING"})
  THEN Parsed(parserAdvance(ps), LiteralExpr(parserPeek(ps).literal))
  ELSE IF parserMatch(ps, {"IDENTIFIER"})
  THEN Parsed(parserAdvance(ps), VariableExpr(NodeId(ps), parserPeek(ps).lexeme))
  ELSE IF parserMatch(ps, {"LEFT_PAREN"})
  THEN Then(expression(parserAdvance(ps)), LAMBDA e :
         Then(parserConsume(e.ps, "RIGHT_PAREN", "Expect ')' after expression."),
           LAMBDA c : Parsed(c.ps, GroupingExpr(e.node))))
  ELSE Thrown(parserError(ps, parserPeek(ps), "Expect expression"))

\* the do-while loop of finishCall
arguments(ps, args) ==
  Then(expression(ps), LAMBDA e :
    IF parserMatch(e.ps, {"COMMA"})
    THEN arguments(parserAdvance(e.ps), Append(args, e.node))
    ELSE Parsed(e.ps, Append(args, e.node)))

finishCall(ps, callee) ==
  Then(IF ~parserCheck(ps, "RIGHT_PAREN") THEN arguments(ps, <<>>) ELSE Parsed(ps, <<>>),
    LAMBDA a :
      Then(parserConsume(a.ps, "RIGHT_PAREN", "Expect ')' after arguments."),
        LAMBDA c : Parsed(c.ps, CallExpr(callee, a.node))))

\* the while (true) loop of call
callLoop(ps, expr) ==
  IF parserMatch(ps, {"LEFT_PAREN"})
  THEN Then(finishCall(parserAdvance(ps), expr), LAMBDA f : callLoop(f.ps, f.node))
  ELSE IF parserMatch(ps, {"DOT"})
  THEN Then(parserConsume(parserAdvance(ps), "IDENTIFIER",
                          "Expect property name after '.' ."),
         LAMBDA n : callLoop(n.ps, GetExpr(expr, n.node.lexeme)))
  ELSE Parsed(ps, expr)

call(ps) == Then(primary(ps), LAMBDA p : callLoop(p.ps, p.node))

unary(ps) ==
  IF parserMatch(ps, {"BANG", "MINUS"})
  THEN Then(unary(parserAdvance(ps)), LAMBDA right :
         Parsed(right.ps, UnaryExpr(parserPeek(ps).type, right.node)))
  ELSE call(ps)

\* the while loop of factor: the right operand is a term
factorLoop(ps, expr) ==
  IF parserMatch(ps, {"SLASH", "STAR"})
  THEN Then(term(parserAdvance(ps)), LAMBDA right :
         factorLoop(right.ps, BinaryExpr(expr, parserPeek(ps).type, right.node)))
  ELSE Parsed(ps, expr)

factor(ps) == Then(unary(ps), LAMBDA left : factorLoop(left.ps, left.node))

\* the while loop of term: the right operand is a term
termLoop(ps, expr) ==
  IF parserMatch(ps, {"MINUS", "PLUS"})
  THEN Then(term(parserAdvance(ps)), LAMBDA right :
         termLoop(right.ps, BinaryExpr(expr, parserPeek(ps).type, right.node)))
  ELSE Parsed(ps, expr)

term(ps) == Then(factor(ps), LAMBDA left : termLoop(left.ps, left.node))

comparisonLoop(ps, expr) ==
  IF parserMatch(ps, {"GREATER", "GREATER_EQUAL", "LESS", "LESS_EQUAL"})
  THEN Then(term(parserAdvance(ps)), LAMBDA right :
         comparisonLoop(right.ps, BinaryExpr(expr, parserPeek(ps).type, right.node)))
  ELSE Parsed(ps, expr)

comparison(ps) == Then(term(ps), LAMBDA left : comparisonLoop(left.ps, left.node))

equalityLoop(ps, expr) ==
  IF parserMatch(ps, {"BANG_EQUAL", "EQUAL_EQUAL"})
  THEN Then(comparison(parserAdvance(ps)), LAMBDA right :
         equalityLoop(right.ps, BinaryExpr(expr, parserPeek(ps).type, right.node)))
  ELSE Parsed(ps, expr)

equality(ps) == Then(comparison(ps), LAMBDA left : equalityLoop(left.ps, left.node))

andLoop(ps, expr) ==
  IF parserMatch(ps, {"AND"})
  THEN Then(equality(parserAdvance(ps)), LAMBDA right :
         andLoop(right.ps, LogicalExpr(expr, parserPeek(ps).type, right.node)))
  ELSE Parsed(ps, expr)

parserAnd(ps) == Then(equality(ps), LAMBDA left : andLoop(left.ps, left.node))

orLoop(ps, expr) ==
  IF parserMatch(ps, {"OR"})
  THEN Then(parserAnd(parserAdvance(ps)), LAMBDA right :
         orLoop(right.ps, LogicalExpr(expr, parserPeek(ps).type, right.node)))
  ELSE Parsed(ps, expr)

parserOr(ps) == Then(parserAnd(ps), LAMBDA left : orLoop(left.ps, left.node))

\* assignment, once both sides of the "=" are parsed: only a Variable is a target;
\* for any other left side the error is reported at the "=" and the left side is
\* the answer
assignmentTo(ps, expr, equals, value) ==
  IF expr.type = "Variable" THEN Parsed(ps, AssignExpr(expr.id, expr.name, value))
  ELSE Parsed(parserError(ps, equals, "Invalid assignment target"), expr)

assignment(ps) ==
  Then(parserOr(ps), LAMBDA expr :
    IF parserMatch(expr.ps, {"EQUAL"})
    THEN Then(assignment(parserAdvance(expr.ps)), LAMBDA value :
           With(assignmentTo(value.ps, expr.node, parserPeek(expr.ps), value.node),
             LAMBDA done :
               Parsed([done.ps EXCEPT !.assigns =
                         Append(@, [left |-> expr.node, value |-> value.node,
                                    answer |-> done.node, thrown |-> done.thrown,
                                    reported |-> SubSeq(done.ps.reports,
                                                        Len(value.ps.reports) + 1,
                                                        Len(done.ps.reports))])],
                      done.node)))
    ELSE expr)

expression(ps) == assignment(ps)

expressionStatement(ps) ==
  Then(expression(ps), LAMBDA expr :
    Then(parserConsume(expr.ps, "SEMICOLON", "Expect ';' after expression."),
      LAMBDA c : Parsed(c.ps, ExpressionStmt(expr.node))))

printStatement(ps) ==
  Then(expression(ps), LAMBDA value :
    Then(parserConsume(value.ps, "SEMICOLON", "Expect ';' after value."),
      LAMBDA c : Parsed(c.ps, PrintStmt(value.node))))

returnStatement(ps) ==
  Then(IF ~parserCheck(ps, "SEMICOLON") THEN expression(ps) ELSE Parsed(ps, NoExpr),
    LAMBDA value :
      Then(parserConsume(value.ps, "SEMICOLON", "Expect ';' after return value."),
        LAMBDA c : Parsed(c.ps, ReturnStmt(value.node))))

varDeclaration(ps) ==
  Then(parserConsume(ps, "IDENTIFIER", "Expect variable name."), LAMBDA name :
    Then(IF parserMatch(name.ps, {"EQUAL"}) THEN expression(parserAdvance(name.ps))
         ELSE Parsed(name.ps, NoExpr),
      LAMBDA initializer :
        Then(parserConsume(initializer.ps, "SEMICOLON",
                           "Expect ';' after variable declaration"),
          LAMBDA c : Parsed(c.ps, VarStmt(name.node.lexeme, initializer.node)))))

whileStatement(ps) ==
  Then(parserConsume(ps, "LEFT_PAREN", "Expect '(' after 'while'."), LAMBDA open :
    Then(expression(open.ps), LAMBDA condition :
      Then(parserConsume(condition.ps, "RIGHT_PAREN", "Expect ')' after condition."),
        LAMBDA close :
          Then(statement(close.ps), LAMBDA body :
            Parsed(body.ps, WhileStmt(condition.node, body.node))))))

ifStatment(ps) ==
  Then(parserConsume(ps, "LEFT_PAREN", "Expect '(' after 'if'."), LAMBDA open :
    Then(expression(open.ps), LAMBDA condition :
      Then(parserConsume(condition.ps, "RIGHT_PAREN", "Expect ')', after if condition."),
        LAMBDA close :
          Then(statement(close.ps), LAMBDA thenBranch :
            Then(IF parserMatch(thenBranch.ps, {"ELSE"})
                 THEN statement(parserAdvance(thenBranch.ps))
                 ELSE Parsed(thenBranch.ps, NoExpr),
              LAMBDA elseBranch :
                Parsed(elseBranch.ps,
                       IfStmt(condition.node, thenBranch.node, elseBranch.node)))))))

forStatement(ps) ==
  Then(parserConsume(ps, "LEFT_PAREN", "Expect '(' after 'for'."), LAMBDA open :
    Then(IF parserMatch(open.ps, {"SEMICOLON"}) THEN Parsed(parserAdvance(open.ps), NoExpr)
         ELSE IF parserMatch(open.ps, {"VAR"}) THEN varDeclaration(parserAdvance(open.ps))
         ELSE expressionStatement(open.ps),
      LAMBDA initializer :
        Then(IF ~parserCheck(initializer.ps, "SEMICOLON") THEN expression(initializer.ps)
             ELSE Parsed(initializer.ps, NoExpr),
          LAMBDA condition :
            Then(parserConsume(condition.ps, "SEMICOLON", "Expect ';' after loop condition"),
              LAMBDA semi :
                Then(IF ~parserCheck(semi.ps, "RIGHT_PAREN") THEN expression(semi.ps)
                     ELSE Parsed(semi.ps, NoExpr),
                  LAMBDA increment :
                    Then(parserConsume(increment.ps, "RIGHT_PAREN",
                                       "Expect ')' after for clause."),
                      LAMBDA close :
                        Then(statement(close.ps), LAMBDA body :
                          With(forLoop(initializer.node, condition.node, increment.node,
                                       body.node),
                            LAMBDA loop :
                              Parsed([body.ps EXCEPT !.loops =
                                        Append(@, [initializer |-> initializer.node,
                                                   condition |-> condition.node,
                                                   increment |-> increment.node,
                                                   body |-> body.node,
                                                   answer |-> loop])],
                                     loop)))))))))

\* block: the statements up to the closing brace
block(ps, stmts) ==
  IF ~parserCheck(ps, "RIGHT_BRACE") /\ ~parserIsAtEnd(ps)
  THEN With(declaration(ps), LAMBDA d : block(d.ps, Append(stmts, d.node)))
  ELSE Then(parserConsume(ps, "RIGHT_BRACE", "Expect '}' after block."),
         LAMBDA c : Parsed(c.ps, stmts))

\* the do-while loop of function
parameters(ps, params) ==
  Then(parserConsume(ps, "IDENTIFIER", "Expect parameters name"), LAMBDA p :
    IF parserMatch(p.ps, {"COMMA"})
    THEN parameters(parserAdvance(p.ps), Append(params, p.node.lexeme))
    ELSE Parsed(p.ps, Append(params, p.node.lexeme)))

function(ps, kind) ==
  Then(parserConsume(ps, "IDENTIFIER", "Expect " \o kind \o " name."), LAMBDA name :
    Then(parserConsume(name.ps, "LEFT_PAREN", "Expect '(' after " \o kind \o " name."),
      LAMBDA open :
        Then(IF ~parserCheck(open.ps, "RIGHT_PAREN") THEN parameters(open.ps, <<>>)
             ELSE Parsed(open.ps, <<>>),
          LAMBDA params :
            Then(parserConsume(params.ps, "RIGHT_PAREN", "Expect ')' after parameters."),
              LAMBDA close :
                Then(parserConsume(close.ps, "LEFT_BRACE",
                                   "Expect '{' before " \o kind \o " body."),
                  LAMBDA brace :
                    Then(block(brace.ps, <<>>), LAMBDA body :
                      Parsed(body.ps,
                             FunctionStmt(name.node.lexeme, params.node, body.node))))))))

\* the while loop of classDeclaration
methodsLoop(ps, name, methods) ==
  IF ~parserCheck(ps, "RIGHT_BRACE") /\ ~parserIsAtEnd(ps)
  THEN Then(function(ps, "method"), LAMBDA m :
         methodsLoop(m.ps, name, Append(methods, m.node)))
  ELSE Then(parserConsume(ps, "RIGHT_BRACE", "Expect '}' after class body."),
         LAMBDA c : Parsed(c.ps, ClassStmt(name, NoExpr, methods)))

classDeclaration(ps) ==
  Then(parserConsume(ps, "IDENTIFIER", "Expect class name."), LAMBDA name :
    Then(parserConsume(name.ps, "LEFT_BRACE", "Expect '{' before class body."),
      LAMBDA brace : methodsLoop(brace.ps, name.node.lexeme, <<>>)))

statement(ps) ==
  IF parserMatch(ps, {"FOR"}) THEN forStatement(parserAdvance(ps))
  ELSE IF parserMatch(ps, {"IF"}) THEN ifStatment(parserAdvance(ps))
  ELSE IF parserMatch(ps, {"PRINT"}) THEN printStatement(parserAdvance(ps))
  ELSE IF parserMatch(ps, {"RETURN"}) THEN returnStatement(parserAdvance(ps))
  ELSE IF parserMatch(ps, {"WHILE"}) THEN whileStatement(parserAdvance(ps))
  ELSE IF parserMatch(ps, {"LEFT_BRACE"})
  THEN Then(block(parserAdvance(ps), <<>>), LAMBDA b : Parsed(b.ps, BlockStmt(b.node)))
  ELSE expressionStatement(ps)

\* the try block of declaration
declarationTry(ps) ==
  IF parserMatch(ps, {"CLASS"}) THEN classDeclaration(parserAdvance(ps))
  ELSE IF parserMatch(ps, {"FUN"}) THEN function(parserAdvance(ps), "function")
  ELSE IF parserMatch(ps, {"VAR"}) THEN varDeclaration(parserAdvance(ps))
  ELSE statement(ps)

\* declaration: what the try block answers, or null after synchronize
declarationCatch(tried) ==
  IF tried.thrown THEN Parsed(synchronize(tried.ps), NoExpr) ELSE tried

\* a call of declaration, from entry to return: where the cursor was and is, whether
\* a ParseError was caught, how many errors were reported, what the call answered,
\* and the tokens on either side of the cursor on return
Called(from, tried, done) ==
  [from |-> from.current, to |-> done.ps.current, startedAtEnd |-> parserIsAtEnd(from),
   caught |-> tried.thrown, reported |-> Len(done.ps.reports) - Len(from.reports),
   answer |-> done.node.type,
   previous |-> IF done.ps.current = 0 THEN "" ELSE parserPrevious(done.ps).type,
   next |-> parserPeek(done.ps).type]

declaration(ps) ==
  With(declarationTry(ps), LAMBDA tried :
    With(declarationCatch(tried), LAMBDA done :
      Parsed([done.ps EXCEPT !.calls = Append(@, Called(ps, tried, done))], done.node)))

\* one turn of the loop of parse
parseTurn(ps) ==
  With(declaration(ps), LAMBDA d : [d.ps EXCEPT !.statements = Append(@, d.node)])

RECURSIVE parse(_)
parse(ps) == IF parserIsAtEnd(ps) THEN ps ELSE parse(parseTurn(ps))

(***************************************************************************)
(* Source texts in words: a text is its words with a space between them.  *)
(***************************************************************************)
\* the characters of the words that are longer than one character
Spell ==
  [and |-> <<"a", "n", "d">>, class |-> <<"c", "l", "a", "s", "s">>,
   else |-> <<"e", "l", "s", "e">>, for |-> <<"f", "o", "r">>, fun |-> <<"f", "u", "n">>,
   if |-> <<"i", "f">>, or |-> <<"o", "r">>, print |-> <<"p", "r", "i", "n", "t">>,
   return |-> <<"r", "e", "t", "u", "r", "n">>, var |-> <<"v", "a", "r">>,
   while |-> <<"w", "h", "i", "l", "e">>, ge |-> <<">", "=">>, le |-> <<"<", "=">>,
   ne |-> <<"!", "=">>, eq |-> <<"=", "=">>]

Chars(word) == IF word \in DOMAIN Spell THEN Spell[word] ELSE <<word>>

RECURSIVE Text(_)
\* the source text of a sequence of words
Text(words) ==
  IF words = <<>> THEN <<>>
  ELSE IF Len(words) = 1 THEN Chars(words[1])
  ELSE Chars(words[1]) \o <<" ">> \o Text(Tail(words))

\* the tokens of a source text
Tokens(words) == scanTokens(NewScanner(Text(words))).tokens

\* for (var i = 0; i < 2; i = i + 1) print i; print i;
ForProgram ==
  parse(NewParser(Tokens(
    <<"for", "(", "var", "i", "=", "0", ";", "i", "<", "2", ";", "i", "=", "i", "+", "1", ")",
      "print", "i", ";", "print", "i", ";">>))).statements

\* the binary operators of BinaryProgram, by program number
BinaryOperators ==
  <<"MINUS", "STAR", "SLASH", "LESS", "LESS_EQUAL", "GREATER", "GREATER_EQUAL", "PLUS">>

NumPrograms == 50

Program(i, h1, h2) ==
  CASE i = 1 -> CounterProgram
    [] i = 2 -> ErrorInCallProgram(h1)
    [] i = 3 -> ErrorAtTopProgram(h1)
    [] i = 4 -> GreetProgram
    [] i = 5 -> SubclassOnlyProgram
    [] i = 6 -> SuperSkipsProgram
    [] i = 7 -> SuperThisProgram
    [] i = 8 -> SuperOverrideProgram
    [] i = 9 -> InitProgram(h1, h2)
    [] i = 10 -> InitErrorProgram(h1)
    [] i = 11 -> LogicalProgram("OR", h1, h2)
    [] i = 12 -> LogicalProgram("AND", h1, h2)
    [] i = 13 -> TernaryProgram(h1)
    [] i = 14 -> TernaryErrorProgram(h1)
    [] i = 15 -> TruthinessProgram(h1)
    [] i = 16 -> BlockErrorProgram(h1)
    [] i = 17 -> NestedScopesProgram
    [] i = 18 -> CaptureProgram
    [] i = 19 -> FibProgram
    [] i = 20 -> NestedSuperProgram
    [] i = 21 -> OwnInitializerProgram
    [] i = 22 -> TopLevelReturnProgram(h1)
    [] i = 23 -> ThisOutsideClassProgram
    [] i = 24 -> SuperWithoutSuperclassProgram
    [] i = 25 -> EqualityProgram(h1, h2)
    [] i = 26 -> ReferenceEqualityProgram
    [] i \in 27 .. 34 -> BinaryProgram(BinaryOperators[i - 26], h1, h2)
    [] i = 35 -> NegateProgram(h1)
    [] i = 36 -> PlusObjectsProgram
    [] i = 37 -> CallValueProgram(h1)
    [] i = 38 -> CallInstanceProgram
    [] i = 39 -> ArityFewProgram(h1)
    [] i = 40 -> ArityManyProgram(h1, h2)
    [] i = 41 -> LambdaReturnProgram(h1)
    [] i = 42 -> LambdaInMethodProgram
    [] i = 43 -> ReturnsProgram
    [] i = 44 -> RedeclareProgram
    [] i = 45 -> ShadowProgram
    [] i = 46 -> SelfInheritProgram
    [] i \in 47 .. 48 -> AssignUndefinedProgram(UndefinedNames[i - 46], h1)
    [] i = 49 -> SetFieldProgram(h1, h2)
    [] OTHER -> ForProgram

\* what a source text starts with, before the text of the program: nothing, a
\* character that is no token, tokens that start no declaration
Leads == {<<>>, <<"@", "\n">>, <<")", ";", "\n">>}

(***************************************************************************)
(* The driver (src/unnamed/part_000).  pc is where the process is:         *)
(* "main", "prompt" (waiting for a line), "run" (about to run a source     *)
(* text), "interpret" (inside Interpreter.interpret, before statement      *)
(* idx), "ran" (interpret has returned), "exited".  exitCode is -1 while   *)
(* the process runs; 1 is the host's exit code for an uncaught exception.  *)
(***************************************************************************)
Running == -1
Uncaught == 1

\* the static pass over a parsed program: new Resolver(interpreter).resolve(statements)
resolveProgram(stmts) == resolve(NewResolver, stmts)

\* lox.runtimeError: reads error.token.line, which only a RuntimeError has
runtimeError(st, sig, msg) ==
  IF sig = "RuntimeError" THEN Ok([st EXCEPT !.output = Append(@, msg)], Nil)
  ELSE TypeError(st, "Cannot read properties of undefined (reading 'line')")

\* no source text has been read
NoSource == [lead |-> <<>>, program |-> 0, h1 |-> Nil, h2 |-> Nil]

Init ==
  /\ mode = "none"
  /\ pc = "main"
  /\ src = NoSource
  /\ statements = <<>>
  /\ idx = 1
  /\ hadError = FALSE
  /\ hadRunTimeError = FALSE
  /\ exitCode = Running
  /\ interp = NewInterpreter([k \in {} |-> 0])
  /\ resolver = NewResolver
  /\ lines = 0
  /\ scanner = NewScanner(<<>>)
  /\ parser = NewParser(<<>>)

\* main: more than one argument is a usage error, one is a file, none is the prompt
main ==
  /\ pc = "main"
  /\ \E argc \in 0 .. 2 :
       /\ mode' = (IF argc = 1 THEN "file" ELSE IF argc = 0 THEN "prompt" ELSE "none")
       /\ pc' = (IF argc = 1 THEN "run" ELSE IF argc = 0 THEN "prompt" ELSE "exited")
       /\ exitCode' = (IF argc > 1 THEN 64 ELSE exitCode)
  /\ UNCHANGED <<src, statements, idx, hadError, hadRunTimeError, interp, resolver, lines,
                 scanner, parser>>

\* the line handler of runPrompt, up to its call of run
promptLine ==
  /\ pc = "prompt"
  /\ lines < MaxLines
  /\ \E isExit \in BOOLEAN :
       IF isExit
       THEN /\ exitCode' = 64
            /\ pc' = "exited"
            /\ UNCHANGED <<hadError, lines>>
       ELSE /\ hadError' = FALSE
            /\ pc' = "run"
            /\ lines' = lines + 1
            /\ UNCHANGED exitCode
  /\ UNCHANGED <<mode, src, statements, idx, hadRunTimeError, interp, resolver, scanner,
                 parser>>

\* end of input at the prompt: the process ends
promptClose ==
  /\ pc = "prompt"
  /\ pc' = "exited"
  /\ exitCode' = 0
  /\ UNCHANGED <<mode, src, statements, idx, hadError, hadRunTimeError, interp, resolver, lines,
                 scanner, parser>>

\* run, up to its call of interpret: the source text is a lead followed by the text
\* of a program
run ==
  /\ pc = "run"
  /\ \E lead \in Leads :
     \E scanned \in {scanTokens(NewScanner(lead))} :
     \E parsed \in {parse(NewParser(scanned.tokens))} :
     \E i \in 1 .. NumPrograms, h1 \in Holes, h2 \in Holes :
     \E program \in {Program(i, h1, h2)} :
       LET syntaxError == hadError \/ scanned.hadError \/ parsed.hadError
           resolved == IF syntaxError THEN NewResolver ELSE resolveProgram(program)
           failed == syntaxError \/ resolved.hadError
       IN /\ src' = [lead |-> lead, program |-> i, h1 |-> h1, h2 |-> h2]
          /\ scanner' = scanned
          /\ parser' = parsed
          /\ statements' = parsed.statements \o program
          /\ resolver' = resolved
          /\ interp' = NewInterpreter(resolved.locals)
          /\ hadError' = failed
          /\ idx' = 1
          /\ pc' = (IF failed THEN "exited" ELSE "interpret")
          /\ exitCode' = (IF failed THEN 65 ELSE exitCode)
  /\ UNCHANGED <<mode, hadRunTimeError, lines>>

\* one turn of the loop of Interpreter.interpret, with its catch clause
interpretStatement ==
  /\ pc = "interpret"
  /\ idx <= Len(statements)
  /\ LET done == execute(interp, statements[idx])
         reported == runtimeError(done.st, done.sig, done.msg)
     IN IF done.sig = "none"
        THEN /\ interp' = done.st
             /\ idx' = idx + 1
             /\ UNCHANGED <<pc, hadRunTimeError, exitCode>>
        ELSE IF reported.sig = "none"
        THEN /\ interp' = reported.st
             /\ hadRunTimeError' = TRUE
             /\ pc' = "ran"
             /\ UNCHANGED <<idx, exitCode>>
        ELSE /\ interp' = reported.st
             /\ pc' = "exited"
             /\ exitCode' = Uncaught
             /\ UNCHANGED <<idx, hadRunTimeError>>
  /\ UNCHANGED <<mode, src, statements, hadError, resolver, lines, scanner, parser>>

\* the loop of Interpreter.interpret ends
interpretEnd ==
  /\ pc = "interpret"
  /\ idx > Len(statements)
  /\ pc' = "ran"
  /\ UNCHANGED <<mode, src, statements, idx, hadError, hadRunTimeError, exitCode, interp,
                 resolver, lines, scanner, parser>>

\* run after interpret, and what its caller does next: the process ends, or run
\* returns to the line handler (its locals are gone) and the prompt is shown again
runEnd ==
  /\ pc = "ran"
  /\ IF hadRunTimeError \/ mode = "file"
     THEN /\ pc' = "exited"
          /\ exitCode' = (IF hadRunTimeError THEN 70 ELSE 0)
          /\ UNCHANGED <<src, statements, idx, interp, resolver, scanner, parser>>
     ELSE /\ pc' = "prompt"
          /\ src' = NoSource
          /\ statements' = <<>>
          /\ idx' = 1
          /\ interp' = NewInterpreter([k \in {} |-> 0])
          /\ resolver' = NewResolver
          /\ scanner' = NewScanner(<<>>)
          /\ parser' = NewParser(<<>>)
          /\ UNCHANGED exitCode
  /\ UNCHANGED <<mode, hadError, hadRunTimeError, lines>>

Next ==
  \/ main
  \/ promptLine
  \/ promptClose
  \/ run
  \/ interpretStatement
  \/ interpretEnd
  \/ runEnd

Spec == Init /\ [][Next]_vars

(***************************************************************************)
(* The scanner alone, over every source text of at most MaxLen characters  *)
(* of Alphabet and the texts of NamedSources: scanTokens runs one turn of  *)
(* its loop per step.                                                      *)
(***************************************************************************)
\* longest source text drawn from Alphabet
MaxLen == 4

\* the longest source text, in words, that the parser is given word by word
MaxWords == 3

Alphabet == {"/", "*", "\n", "\"", "a", " "}

\* /* /* */ */
\* var x = 1.5;
\* if (a <= "b") { } // c
\* @
NamedSources ==
  {<<"/", "*", " ", "/", "*", " ", "*", "/", " ", "*", "/">>,
   <<"v", "a", "r", " ", "x", " ", "=", " ", "1", ".", "5", ";", "\n">>,
   <<"i", "f", " ", "(", "a", " ", "<", "=", " ", "\"", "b", "\"", ")", " ", "{", " ", "}",
     " ", "/", "/", " ", "c", "\n", "@">>}

Sources == UNION {[1 .. n -> Alphabet] : n \in 0 .. MaxLen} \cup NamedSources

\* scanTokens has pushed the EOF token
Scanned(sc) == sc.tokens # <<>> /\ sc.tokens[Len(sc.tokens)].type = "EOF"

ScanInit ==
  /\ scanner \in {NewScanner(source) : source \in Sources}
  /\ mode = "none"
  /\ pc = "main"
  /\ src = NoSource
  /\ statements = <<>>
  /\ idx = 1
  /\ hadError = FALSE
  /\ hadRunTimeError = FALSE
  /\ exitCode = Running
  /\ interp = NewInterpreter([k \in {} |-> 0])
  /\ resolver = NewResolver
  /\ lines = 0
  /\ parser = NewParser(<<>>)

\* scanTokens: one turn of its loop
scanTokensLoop ==
  /\ ~Scanned(scanner)
  /\ ~isAtEnd(scanner)
  /\ scanner' = scanTokensTurn(scanner)
  /\ hadError' = (hadError \/ scanner'.hadError)
  /\ UNCHANGED <<mode, pc, src, statements, idx, hadRunTimeError, exitCode, interp, resolver,
                 lines, parser>>

\* scanTokens: the loop has ended
scanTokensReturn ==
  /\ ~Scanned(scanner)
  /\ isAtEnd(scanner)
  /\ scanner' = scanTokensEnd(scanner)
  /\ UNCHANGED <<mode, pc, src, statements, idx, hadError, hadRunTimeError, exitCode, interp,
                 resolver, lines, parser>>

ScanNext ==
  \/ scanTokensLoop
  \/ scanTokensReturn

ScanSpec == ScanInit /\ [][ScanNext]_vars

(***************************************************************************)
(* The parser alone: parse over the tokens of a source text, one call of   *)
(* declaration at a time.  The scanner above makes the tokens of a text.   *)
(* pc is "parse" inside the loop of parse and "parsed" when parse has      *)
(* returned; src.lead is the text, in words.                               *)
(***************************************************************************)
\* the words that texts of up to MaxWords words are made of
Words == {"a", "1", ";", "(", ")", "{", "}", "=", "-", ".", "print", "var", "fun"}

\* the binary operators of the grammar
InfixWords == {"-", "+", "/", "*", ">", "ge", "<", "le", "ne", "eq", "and", "or"}

\* a op b op c ; for every two binary operators: a - b - c ; a * b + c ; ...
InfixTexts == {<<"a", op1, "b", op2, "c", ";">> : op1 \in InfixWords, op2 \in InfixWords}

NamedTexts ==
  {<<"o", ".", "f", "=", "v", ";">>,
   <<"a", "=", "b", "=", "c", ";">>,
   <<"(", "a", ")", "=", "b", ";", "1", "=", "b", ";">>,
   <<"for", "(", "var", "i", "=", "0", ";", "i", "<", "1", ";", "i", "=", "i", "+", "1", ")",
     "print", "i", ";">>,
   <<"for", "(", ";", ";", ")", "print", "1", ";",
     "for", "(", "var", "i", "=", "0", ";", "i", "<", "1", ";", "i", "=", "i", "+", "1", ")",
     "print", "i", ";">>,
   <<"for", "(", "a", ";", ";", "b", ")", "c", ";">>,
   <<"for", "(", ";", "a", ";", ")", "{", "b", ";", "}">>,
   <<")", ";", "print", "1", ";", "var", "=", "2", ";", "print", "3", ";">>,
   <<")", "print", "1", ";", "var", "=", "2", ";", "print", "3", ";">>,
   <<"{", ")", "print", "1", ";", "}", "print", "2", ";">>,
   <<"fun", "f", "(", "a", ",", "b", ")", "{", "var", ";", "return", "a", ";", "}">>,
   <<"class", "A", "{", "m", "(", ")", "{", "return", ";", "}", "}">>,
   <<"if", "(", "a", ")", "b", ";", "else", "c", ";", "while", "(", "a", ")",
     "f", "(", "1", ",", "2", ")", ";">>,
   <<"print", "-", "a", "*", "!", "b", ";">>}

Texts == UNION {[1 .. n -> Words] : n \in 0 .. MaxWords} \cup InfixTexts \cup NamedTexts

ParseInit ==
  /\ src \in {[lead |-> words, program |-> 0, h1 |-> Nil, h2 |-> Nil] : words \in Texts}
  /\ scanner = scanTokens(NewScanner(Text(src.lead)))
  /\ parser = NewParser(scanner.tokens)
  /\ mode = "none"
  /\ pc = "parse"
  /\ statements = <<>>
  /\ idx = 1
  /\ hadError = FALSE
  /\ hadRunTimeError = FALSE
  /\ exitCode = Running
  /\ interp = NewInterpreter([k \in {} |-> 0])
  /\ resolver = NewResolver
  /\ lines = 0

\* parse: one turn of its loop
parseLoop ==
  /\ pc = "parse"
  /\ ~parserIsAtEnd(parser)
  /\ parser' = parseTurn(parser)
  /\ hadError' = (hadError \/ parser'.hadError)
  /\ UNCHANGED <<mode, pc, src, statements, idx, hadRunTimeError, exitCode, interp, resolver,
                 lines, scanner>>

\* parse: the loop has ended, the statements are returned
parseReturn ==
  /\ pc = "parse"
  /\ parserIsAtEnd(parser)
  /\ pc' = "parsed"
  /\ statements' = parser.statements
  /\ UNCHANGED <<mode, src, idx, hadError, hadRunTimeError, exitCode, interp, resolver, lines,
                 scanner, parser>>

ParseNext ==
  \/ parseLoop
  \/ parseReturn

ParseSpec == ParseInit /\ [][ParseNext]_vars

(***************************************************************************)
(* Properties.  Trace is the record of what the evaluator did while the   *)
(* program ran; Events(kind) are the positions of its events of one kind.  *)
(***************************************************************************)
Trace == interp.trace
Events(kind) == {i \in DOMAIN Trace : Trace[i].ev = kind}

\* the hop count the resolver assigned to the expression with this id; -1: none
HopCount(id) == IF id \in DOMAIN resolver.locals THEN resolver.locals[id] ELSE -1

\* C1: every Variable, Assign, This or Super expression the evaluator reaches is looked
\* up with the hop count the resolver assigned to it; with a hop count d, the frame d
\* enclosing links up from the current frame exists and holds the name, and that frame is
\* the one read or written; without a hop count the name is read or written in the globals
\* frame, or is reported undefined there.
HopCountsAddressTheDeclaringFrame ==
  \A i \in Events("lookup") :
    LET e == Trace[i]
    IN /\ e.distance = HopCount(e.id)
       /\ i < Len(Trace)
       /\ Trace[i + 1].ev = "access"
       /\ Trace[i + 1].name = e.name
       /\ IF e.distance # -1
          THEN /\ e.frame # 0
               /\ e.frame = ancestor(interp, e.current, e.distance)
               /\ e.found
               /\ Trace[i + 1].op \in {"getAt", "assignAt"}
               /\ Trace[i + 1].frame = e.frame
               /\ Trace[i + 1].present
          ELSE /\ Trace[i + 1].op \in {"get", "assign"}
               /\ Trace[i + 1].frame \in {0, Globals}
               /\ e.found => Trace[i + 1].frame = Globals

\* C1 happens: a program has run in which a name was read three frames up, a name was
\* written one frame up, and a global was read
HopCountsWitness ==
  /\ pc = "ran"
  /\ \E i \in Events("lookup") : Trace[i].kind = "read" /\ Trace[i].distance >= 3
  /\ \E i \in Events("lookup") : Trace[i].kind = "write" /\ Trace[i].distance >= 1
  /\ \E i \in Events("lookup") : Trace[i].distance = -1 /\ Trace[i].found

\* C2: a runtime error raised inside a function body reaches the top level: the program
\* stops there with had-runtime-error set and no statement runs after the error was
\* raised; a call ends normally or by the return signal, nothing else.
RuntimeErrorsLeaveEveryCall ==
  /\ \A i \in Events("throw") :
       Trace[i].depth > 0 =>
         /\ hadRunTimeError
         /\ pc \in {"ran", "exited"}
         /\ \A j \in Events("exec") : j < i
  /\ \A i \in Events("call") : Trace[i].exit \in {"none", "Return"}

\* C3: a block leaves the current frame as it found it, however it ends; so does a call;
\* and between the statements of the program, and after interpret, the current frame is
\* the globals frame it was before.
BlocksRestoreTheCurrentFrame ==
  /\ \A i \in Events("block") : Trace[i].after = Trace[i].previous
  /\ \A i \in Events("call") : Trace[i].after = Trace[i].caller
  /\ interp.environment = Globals

\* C3 happens: one block was left by a runtime error and another by the return signal,
\* each while a frame other than the previous one was current, inside a call made from
\* the top level
BlocksRestoreWitness ==
  /\ pc = "interpret"
  /\ \E i \in Events("block") :
       Trace[i].exit = "RuntimeError" /\ Trace[i].inside # Trace[i].previous
  /\ \E i \in Events("block") :
       Trace[i].exit = "Return" /\ Trace[i].inside # Trace[i].previous
  /\ \E i \in Events("call") : Trace[i].exit = "RuntimeError"

\* the method a class has under a name by the rule "its own, else its superclass
\* chain's"; 0: none
RECURSIVE OwnThenSuperclass(_, _, _)
OwnThenSuperclass(st, klass, name) ==
  IF name \in DOMAIN st.classes[klass].methods THEN st.classes[klass].methods[name]
  ELSE IF st.classes[klass].superclass # 0
  THEN OwnThenSuperclass(st, st.classes[klass].superclass, name)
  ELSE 0

\* the method names of the program's classes
MethodNames == UNION {DOMAIN interp.classes[k].methods : k \in DOMAIN interp.classes}

\* C4: method lookup on a class yields the class's own method of that name if it has
\* one, and otherwise what the lookup on its superclass chain yields; so `B().greet()`,
\* with B < A both defining greet, runs B's greet, which prints "hi" and then "there".
FindMethodPrefersOwnMethod ==
  /\ \A k \in DOMAIN interp.classes : \A name \in MethodNames :
       findMethod(interp, k, name) = OwnThenSuperclass(interp, k, name)
  /\ pc = "ran" /\ src.program = 4 => interp.output = <<"hi", "there">>

\* C5: `super.m` yields the method the lookup from the superclass finds by the
\* own-then-superclass rule, bound to the instance `this` denotes: `this` is read one hop
\* below `super`, in a frame that holds `this` and nothing else (the frame bind made); when
\* no class from the superclass upward defines m, and only then, "Undefined property" is
\* raised.
SuperFindsSuperclassMethod ==
  \A i \in Events("super") :
    LET e == Trace[i]
    IN /\ e.method = OwnThenSuperclass(interp, e.superclass, e.name)
       /\ e.thisFrame # 0
       /\ DOMAIN interp.envs[e.thisFrame].values = {"this"}
       /\ interp.envs[e.thisFrame].values["this"] = e.object
       /\ e.method = 0 =>
            /\ i < Len(Trace)
            /\ Trace[i + 1].ev = "throw"
            /\ Trace[i + 1].msg = "Undefined property '" \o e.name \o "'"

\* C6: a call of an initializer yields the instance bound as `this` in its closure, on
\* every exit of its body; and a call of a class yields the instance it has just created.
InitializerReturnsThis ==
  /\ \A i \in Events("call") :
       Trace[i].isInitializer =>
         /\ Trace[i].this.t = "instance"
         /\ Trace[i].this = interp.envs[Trace[i].closure].values["this"]
         /\ Trace[i].result = Trace[i].this
  /\ \A i \in Events("instantiate") :
       /\ Trace[i].result = InstanceRef(Trace[i].before + 1)
       /\ Trace[i].initializer # 0 =>
            \E j \in Events("call") :
              /\ j < i
              /\ Trace[j].isInitializer
              /\ Trace[j].this = Trace[i].result

\* C6 happens: an initializer was left by `return;` in one call and by falling off the end
\* of its body in another, once called by its class and once as a method of the instance
InitializerWitness ==
  /\ pc = "ran"
  /\ src.program = 9
  /\ \E i \in Events("call") : Trace[i].isInitializer /\ Trace[i].exit = "Return"
  /\ \E i \in Events("call") : Trace[i].isInitializer /\ Trace[i].exit = "none"
  /\ Events("instantiate") # {}
  /\ interp.output[Len(interp.output)] = "true"

Falsey(v) == v = Nil \/ v = Bool(FALSE)

\* the name was assigned to
Assigned(name) ==
  \E i \in Events("access") : Trace[i].op \in {"assign", "assignAt"} /\ Trace[i].name = name

\* C8: the right operand of a logical expression is evaluated exactly when the left one
\* does not decide: for `or` when the left value is falsey, for `and` when it is truthy;
\* when it is not evaluated the result is the left value itself.  In
\* `var r = h1 or (n = h2)` and `var r = h1 and (n = h2)`, n is assigned exactly then.
LogicalShortCircuits ==
  /\ \A i \in Events("logical") :
       LET e == Trace[i]
       IN /\ e.rightEvaluated <=>
               (IF e.operator = "OR" THEN Falsey(e.left) ELSE ~Falsey(e.left))
          /\ ~e.rightEvaluated => e.result = e.left
  /\ pc = "ran" /\ src.program = 11 => (Assigned("n") <=> Falsey(src.h1))
  /\ pc = "ran" /\ src.program = 12 => (Assigned("n") <=> ~Falsey(src.h1))

\* C8 happens: `"" or (n = h2)` has run: the right operand was not evaluated and the
\* result is the empty string, not a boolean
LogicalWitness ==
  /\ pc = "ran"
  /\ src.program = 11
  /\ src.h1 = Str("")
  /\ ~Assigned("n")
  /\ \E i \in Events("logical") : ~Trace[i].rightEvaluated /\ Trace[i].result = Str("")
  /\ interp.output[1] = ""

\* C9: a ternary expression evaluates its condition and then one arm only: the first when
\* the condition is truthy, the other when it is falsey.  `print true ? 1 : 1 / 0;` prints
\* 1 and raises nothing.
TernaryEvaluatesOneArm ==
  /\ \A i \in Events("ternary") :
       LET e == Trace[i]
       IN /\ e.thenEvaluated <=> ~Falsey(e.condition)
          /\ e.elseEvaluated <=> Falsey(e.condition)
  /\ pc = "ran" /\ src.program = 14 /\ src.h1 = Bool(TRUE) =>
       ~hadRunTimeError /\ interp.output = <<"1", "after">>

\* C10: every construct that tests a condition decides by the same truthiness: the
\* decision is false for nil and for false, and true for every other value.
TestsUseOneTruthiness ==
  \A i \in Events("test") : Trace[i].decision <=> ~Falsey(Trace[i].value)

\* C11: `a == b` is true exactly when a and b are the same value: both nil, or of one
\* kind and equal (a number, string or boolean by value, a callable or instance by
\* reference); and `a != b` is the negation of `a == b`.
EqualityIsByKindAndValue ==
  \A i \in Events("operation") :
    LET e == Trace[i]
    IN /\ e.operator = "EQUAL_EQUAL" => ~e.raised /\ e.result = Bool(e.left = e.right)
       /\ e.operator = "BANG_EQUAL" => ~e.raised /\ e.result = Bool(e.left # e.right)

\* the binary operators that take numbers only
NumericOperators ==
  {"MINUS", "STAR", "SLASH", "LESS", "LESS_EQUAL", "GREATER", "GREATER_EQUAL"}

\* C12: each of `-`, `*`, `/`, `<`, `<=`, `>`, `>=` raises a runtime error when its left
\* or its right operand is not a number, and yields a value only for two numbers; the
\* program `print h1 - h2;` with an operand that is no number ends with
\* had-runtime-error set.
NumericOperatorsRequireNumbers ==
  /\ \A i \in Events("operation") :
       Trace[i].operator \in NumericOperators =>
         (Trace[i].raised <=>
            \/ Trace[i].left.t # "num"
            \/ Trace[i].right.t # "num"
            \/ Trace[i].operator = "SLASH" /\ Trace[i].right = Num(0))
  /\ pc = "ran" /\ src.program \in 27 .. 33 /\ (src.h1.t # "num" \/ src.h2.t # "num") =>
       hadRunTimeError

\* C13: unary `-` raises a runtime error for an operand that is not a number, and yields
\* the negation of a number.
NegationRequiresNumber ==
  /\ \A i \in Events("operation") :
       Trace[i].operator = "NEGATE" =>
         IF Trace[i].right.t = "num"
         THEN ~Trace[i].raised /\ Trace[i].result = NumNeg(Trace[i].right)
         ELSE Trace[i].raised
  /\ pc = "ran" /\ src.program = 35 /\ src.h1.t # "num" => hadRunTimeError

\* C14: a division of a number by 0 raises "Cannot divide by 0" and yields no value; the
\* error ends the program: no statement runs after it, had-runtime-error is set, and the
\* process exits with status 70; `print 1 / 0;` prints nothing but the error.
DivisionByZeroEndsTheProgram ==
  /\ \A i \in Events("operation") :
       Trace[i].operator = "SLASH" /\ Trace[i].left.t = "num" /\ Trace[i].right = Num(0) =>
         /\ Trace[i].raised
         /\ Trace[i - 1].ev = "throw"
         /\ Trace[i - 1].msg = "Cannot divide by 0"
  /\ \A i \in Events("throw") :
       Trace[i].msg = "Cannot divide by 0" =>
         /\ hadRunTimeError
         /\ pc \in {"ran", "exited"}
         /\ \A j \in Events("exec") : j < i
         /\ pc = "exited" => exitCode = 70
  /\ pc = "ran" /\ src.program = 3 /\ src.h1 = Num(0) =>
       interp.output = <<"Cannot divide by 0">>

\* what print shows for a value
DisplayForm(v) == stringify(interp, v).val.s

\* C15: `a + b` yields the sum of two numbers; with at least one string operand it
\* yields the concatenation of the display forms of a and b, the display form of a value
\* being what print shows for it (nil for nil); for all other operands it raises a
\* runtime error.
PlusAddsOrConcatenates ==
  \A i \in Events("operation") :
    LET e == Trace[i]
    IN e.operator = "PLUS" =>
         IF e.left.t = "num" /\ e.right.t = "num"
         THEN ~e.raised /\ e.result = NumAdd(e.left, e.right)
         ELSE IF e.left.t = "str" \/ e.right.t = "str"
         THEN ~e.raised /\ e.result = Str(DisplayForm(e.left) \o DisplayForm(e.right))
         ELSE e.raised

\* C16: a call of a value that is no function or class (a number, string, boolean, nil,
\* instance) raises "Can only call functions and classes"; a call with a number of
\* arguments other than the arity raises "Expected N arguments, but got M"; either way
\* the program ends there as with any runtime error, and no statement of a function body
\* has run for that call.
CallsRequireCallableAndArity ==
  /\ pc = "exited" /\ src.program = 37 =>
       /\ interp.output = <<"before", "Can only call functions and classes">>
       /\ exitCode = 70
  /\ pc = "exited" /\ src.program = 38 =>
       /\ interp.output = <<"Can only call functions and classes">>
       /\ exitCode = 70
  /\ pc = "exited" /\ src.program = 39 =>
       /\ interp.output = <<"body", "Expected 1 arguments, but got 0.">>
       /\ exitCode = 70
  /\ pc = "exited" /\ src.program = 40 =>
       /\ interp.output = <<"Expected 1 arguments, but got 2.">>
       /\ exitCode = 70

RECURSIVE NestingEnd(_, _, _)
\* where the nesting depth of a block comment returns to 0, reading from cursor pos with
\* the depth given: +1 on each /*, -1 on each */; or the end of the source and the depth
\* left there
NestingEnd(source, pos, depth) ==
  IF depth = 0 \/ pos >= Len(source) THEN [current |-> pos, depth |-> depth]
  ELSE IF charAt(source, pos) = "/" /\ charAt(source, pos + 1) = "*"
  THEN NestingEnd(source, pos + 2, depth + 1)
  ELSE IF charAt(source, pos) = "*" /\ charAt(source, pos + 1) = "/"
  THEN NestingEnd(source, pos + 2, depth - 1)
  ELSE NestingEnd(source, pos + 1, depth)

\* C19: a block comment is consumed up to the place where its nesting depth returns to
\* 0, without token and without error, also when its closing */ ends the source;
\* "Unterminated comment." is reported exactly when the source ends with the depth
\* above 0.
BlockCommentsNest ==
  \A k \in 1 .. Len(scanner.comments) :
    LET c == scanner.comments[k]
        end == NestingEnd(scanner.source, c.start + 2, 1)
    IN /\ c.reported <=> end.depth > 0
       /\ end.depth = 0 => c.current = end.current
       /\ \A t \in 1 .. Len(scanner.spans) :
            \/ scanner.spans[t].current <= c.start
            \/ scanner.spans[t].start >= c.current

\* the newline characters before cursor pos
NewlinesBefore(source, pos) == Cardinality({i \in 1 .. pos : source[i] = "\n"})

\* C20: the lexeme of every token is the source text between the cursors start and
\* current of its push, and its line is 1 plus the number of newlines before the first
\* character of the lexeme, also for a string literal that spans lines.
TokensCarryLexemeAndLine ==
  \A k \in 1 .. Len(scanner.tokens) :
    /\ scanner.tokens[k].lexeme =
         substring(scanner.source, scanner.spans[k].start, scanner.spans[k].current)
    /\ scanner.tokens[k].line = 1 + NewlinesBefore(scanner.source, scanner.spans[k].start)

\* a scan error, a parse error or a resolver error has been reported for the source
\* text being run
StaticErrorReported ==
  scanner.errors # <<>> \/ parser.errors # <<>> \/ resolver.errors # <<>>

PromptSurvivesErrors ==
  /\ mode = "prompt" /\ pc = "exited" => exitCode \in {0, 64}
  /\ mode = "prompt" /\ pc = "run" => ~hadError

\* the resolver's log
ResolverLog == resolver.log

\* the function kind of the innermost body the resolver is inside, given the bodies
FunctionKind(nesting) ==
  IF nesting = <<>> THEN "NONE"
  ELSE IF nesting[Len(nesting)] = "LAMBDA" THEN "FUNCTION"
  ELSE nesting[Len(nesting)]

\* the elements of a sequence
Range(seq) == {seq[i] : i \in 1 .. Len(seq)}

\* C25: at every return statement the resolver visits, the current function kind is
\* the kind of the innermost enclosing function declaration, method or lambda; "Can't
\* return from top-level code" is reported exactly for a return inside none of them,
\* and the initializer error exactly for a return with a value whose innermost
\* enclosing one is a method named init.
ReturnsKnowTheirFunction ==
  \A i \in 1 .. Len(ResolverLog) :
    LET e == ResolverLog[i]
    IN e.ev = "return" =>
         /\ e.currentFunction = FunctionKind(e.nesting)
         /\ "Can't return from top-level code" \in Range(e.reported) <=> e.nesting = <<>>
         /\ "Can't return a value from an intiailizer" \in Range(e.reported) <=>
              (e.value /\ e.nesting # <<>> /\ e.nesting[Len(e.nesting)] = "INITIALIZER")

\* C26: a name is declared in a scope where it was not, and defined after it was
\* declared; declaring a name that the innermost scope has reports "Already a variable
\* with this name in this scope."; reading a name that the innermost scope has as
\* declared only reports "Can't read local variable in its own initializer."; and
\* nothing is reported for a declaration or read at global scope or of a name that only
\* outer scopes have.
NamesAreDeclaredThenDefined ==
  \A i \in 1 .. Len(ResolverLog) :
    LET e == ResolverLog[i]
    IN /\ e.ev = "declare" =>
            (e.reported = <<"Already a variable with this name in this scope.">>
               <=> e.was \in {"declared", "defined"})
            /\ (e.was \in {"global", "undeclared"} => e.reported = <<>>)
       /\ e.ev = "read" =>
            (e.reported = <<"Can't read local variable in its own initializer.">>
               <=> e.was = "declared")
            /\ (e.was # "declared" => e.reported = <<>>)
       /\ e.ev = "define" => e.was \in {"global", "declared"}

\* a program has been resolved in which a name was declared twice in one scope, a
\* local was read in its own initializer, and names of outer scopes were shadowed and
\* read without report
NamesWitness ==
  /\ pc = "exited"
  /\ src.program = 44
  /\ resolver.errors = <<"Already a variable with this name in this scope.",
                         "Can't read local variable in its own initializer.",
                         "Already a variable with this name in this scope.",
                         "Already a variable with this name in this scope.">>
  /\ \E i \in 1 .. Len(ResolverLog) :
       ResolverLog[i].ev = "read" /\ ResolverLog[i].was = "undeclared"

\* C29: whenever the resolver has resolved a list of statements, with or without
\* errors, its scope stack is empty and the current function kind and the current
\* class kind are NONE.
ResolverEndsWhereItStarted ==
  /\ resolver.scopes = <<>>
  /\ resolver.nesting = <<>>
  /\ resolver.currentFunction = "NONE"
  /\ resolver.currentClass = "NONE"

\* classes that inherit from themselves, one of them in a block, have been resolved
ResolverEndsWitness ==
  /\ pc = "exited"
  /\ src.program = 46
  /\ resolver.errors = <<"A class can't inherit from itself.",
                         "A class can't inherit from itself.">>
  /\ Len(ResolverLog) > 0

\* C27: an assignment to a variable without hop count that the globals frame does not
\* hold raises "Undefined variable" and creates no binding: an assignment by name
\* writes only a name its frame holds, and after `x = v;` with no x declared the
\* program has ended with the error and the globals frame holds the names it held.
AssignmentCreatesNoBinding ==
  /\ \A i \in Events("access") :
       Trace[i].op = "assign" =>
         IF Trace[i].frame = 0
         THEN /\ Trace[i + 1].ev = "throw"
              /\ Trace[i + 1].msg = "Undefined variable '" \o Trace[i].name \o "'."
         ELSE Trace[i].present
  /\ pc = "ran" /\ src.program \in 47 .. 48 =>
       /\ hadRunTimeError
       /\ DOMAIN interp.envs[Globals].values = {"clock", "g"}

\* C28: after `o.f = v` on an instance o the fields of o map f to v, the expression
\* has the value v, a later `o.f` yields v also where the class of o has a method f,
\* and the fields of every other instance are as they were.
SetStoresTheField ==
  pc = "ran" /\ src.program = 49 =>
    /\ ~hadRunTimeError
    /\ interp.output = <<DisplayForm(src.h1), DisplayForm(src.h1),
                         DisplayForm(src.h2), DisplayForm(src.h2)>>
    /\ interp.instances[1].fields = ("f" :> src.h1) @@ ("g" :> src.h2)
    /\ interp.instances[2].fields = EmptyMap

(***************************************************************************)
(* The parser.  Level is the precedence level of a binary operator in the  *)
(* grammar, the higher the tighter; a node that is no binary expression    *)
(* is tighter than all of them.                                            *)
(***************************************************************************)
Level(operator) ==
  CASE operator \in {"SLASH", "STAR"} -> 6
    [] operator \in {"MINUS", "PLUS"} -> 5
    [] operator \in {"GREATER", "GREATER_EQUAL", "LESS", "LESS_EQUAL"} -> 4
    [] operator \in {"BANG_EQUAL", "EQUAL_EQUAL"} -> 3
    [] operator = "AND" -> 2
    [] operator = "OR" -> 1

NodeLevel(node) == IF node.type \in {"Binary", "Logical"} THEN Level(node.operator) ELSE 7

RECURSIVE GrammarTree(_)
\* the tree of the grammar for the tokens of an expression: the left operand of an
\* operator binds at least as tightly as the operator, the right operand more tightly
GrammarTree(node) ==
  CASE node.type \in {"Binary", "Logical"} ->
         /\ NodeLevel(node.left) >= Level(node.operator)
         /\ NodeLevel(node.right) > Level(node.operator)
         /\ GrammarTree(node.left)
         /\ GrammarTree(node.right)
    [] node.type = "Unary" -> GrammarTree(node.right)
    [] node.type = "Grouping" -> GrammarTree(node.expression)
    [] OTHER -> TRUE

\* C21: every binary expression the parser has built is the tree of the grammar:
\* operators of one level associate to the left, and * and / bind tighter than + and -,
\* which bind tighter than comparison, then equality, then and, then or
BinaryTreesFollowTheGrammar ==
  \A k \in DOMAIN parser.statements :
    parser.statements[k].type = "Expression"
      => GrammarTree(parser.statements[k].expression)

\* C22: for every "=" with both sides parsed: a Variable on the left gives Assign, a
\* Get on the left gives Set, both without an error; any other left side is returned
\* as it is, with "Invalid assignment target" reported at the "=" and nothing thrown
AssignmentBuildsAssignOrSet ==
  \A k \in DOMAIN parser.assigns :
    LET a == parser.assigns[k]
    IN /\ ~a.thrown
       /\ CASE a.left.type = "Variable" ->
                 /\ a.answer = AssignExpr(a.left.id, a.left.name, a.value)
                 /\ a.reported = <<>>
            [] a.left.type = "Get" ->
                 /\ a.answer = SetExpr(a.left.object, a.left.name, a.value)
                 /\ a.reported = <<>>
            [] OTHER ->
                 /\ a.answer = a.left
                 /\ Len(a.reported) = 1
                 /\ a.reported[1].message = "Invalid assignment target"
                 /\ a.reported[1].type = "EQUAL"

\* what the for statement with these clauses stands for; NoExpr is a missing clause
Desugared(loop) ==
  LET body == IF loop.increment = NoExpr THEN loop.body
              ELSE BlockStmt(<<loop.body, ExpressionStmt(loop.increment)>>)
      condition == IF loop.condition = NoExpr THEN LiteralExpr(Bool(TRUE))
                   ELSE loop.condition
  IN IF loop.initializer = NoExpr THEN WhileStmt(condition, body)
     ELSE BlockStmt(<<loop.initializer, WhileStmt(condition, body)>>)

\* C23: every for statement is parsed into Block[init, While(cond, Block[body,
\* Expression(incr)])], with true for a missing cond, the body itself for a missing
\* incr and no outer block for a missing init; a for statement that is a whole
\* declaration is the statement parse collects
ForLoopsAreWhileLoops ==
  /\ \A k \in DOMAIN parser.loops : parser.loops[k].answer = Desugared(parser.loops[k])
  /\ parser.statements # <<>> /\ src.lead[1] = "for" /\ ~parser.calls[1].caught
       => \E k \in DOMAIN parser.loops : parser.statements[1] = parser.loops[k].answer

\* the for statement of ForProgram, run: the increment follows the body in each turn,
\* and the variable of the initializer is gone after the loop
ForLoopRuns ==
  (src.program = 50 /\ src.lead = <<>> /\ pc \in {"ran", "exited"})
    => interp.output = <<"0", "1", "Undefined variable 'i'">>

\* a for statement with every clause and one with none have been parsed
ForLoopsWitness ==
  /\ pc = "parsed"
  /\ \E k \in DOMAIN parser.loops :
       /\ parser.loops[k].initializer # NoExpr
       /\ parser.loops[k].condition # NoExpr
       /\ parser.loops[k].increment # NoExpr
       /\ parser.loops[k].answer.type = "Block"
  /\ \E k \in DOMAIN parser.loops :
       /\ parser.loops[k].initializer = NoExpr
       /\ parser.loops[k].condition = NoExpr
       /\ parser.loops[k].increment = NoExpr
       /\ parser.loops[k].answer.type = "While"

\* C24: a call of declaration that caught a parse error had the error reported,
\* answered null, and returned at EOF, or after a ";", or before class, fun, var, for,
\* if, while, print or return; parse goes on from there to the end of the tokens, and
\* what it collects for a declaration is null exactly when the declaration failed
ErrorsAreCaughtAndParsingResumes ==
  /\ \A k \in DOMAIN parser.calls :
       LET c == parser.calls[k]
       IN /\ c.caught =>
               /\ c.reported >= 1
               /\ \/ c.next = "EOF"
                  \/ c.previous = "SEMICOLON"
                  \/ c.next \in StatementStarts
          /\ c.caught <=> c.answer = "null"
  /\ parser.statements # <<>> =>
       (parser.statements[Len(parser.statements)] = NoExpr
          <=> parser.calls[Len(parser.calls)].caught)
  /\ parser.hadError <=> parser.reports # <<>>
  /\ pc = "parsed" => parserIsAtEnd(parser) /\ statements = parser.statements

\* two declarations failed in one run and a later one was parsed
ErrorsWitness ==
  /\ pc = "parsed"
  /\ Len(parser.reports) >= 2
  /\ \E j, k \in DOMAIN statements :
       /\ j < k
       /\ statements[j] = NoExpr
       /\ statements[k] # NoExpr
  /\ \E k \in DOMAIN parser.calls :
       /\ parser.calls[k].caught
       /\ parser.calls[k].previous # "SEMICOLON"
       /\ parser.calls[k].next \in StatementStarts

\* every call of declaration so far has consumed a token or was made at EOF
DeclarationsConsume ==
  \A k \in DOMAIN parser.calls :
    parser.calls[k].to > parser.calls[k].from \/ parser.calls[k].startedAtEnd

\* the cursor is on a token, the EOF token at the latest
CursorInTokens ==
  /\ parser.current + 1 <= Len(parser.tokens)
  /\ parser.tokens[Len(parser.tokens)].type = "EOF"
  /\ \A k \in 1 .. parser.current : parser.tokens[k].type # "EOF"

\* C30: parse terminates on every token sequence that ends with EOF: each call of
\* declaration consumes a token or is made at EOF, with or without a caught error,
\* and the cursor never passes the EOF token; so the loop of parse takes no more
\* turns than there are tokens before EOF, and when it ends the cursor is at EOF
ParseTerminates ==
  /\ DeclarationsConsume
  /\ CursorInTokens
  /\ Len(parser.statements) <= parser.current
  /\ Len(parser.calls) <= parser.current
  /\ pc = "parsed" => parserIsAtEnd(parser)

\* parse has returned at EOF after a call of declaration, not the first, that caught
\* an error at its first token: synchronize consumed that one token
ParseTerminatesWitness ==
  /\ pc = "parsed"
  /\ \E k \in DOMAIN parser.calls :
       /\ parser.calls[k].caught
       /\ parser.calls[k].from > 0
       /\ parser.calls[k].to = parser.calls[k].from + 1
  /\ parser.current + 1 = Len(parser.tokens)

====
